---------------------------- MODULE Spec2Model ----------------------------
(***************************************************************************)
(* Model of the serverless handlers of the RFQ backend, centred on the     *)
(* batch download handler api/download-order-files (src/unnamed/part_000). *)
(*                                                                         *)
(* Representation of JavaScript values:                                    *)
(*  - a string is a sequence of characters; an ASCII character is written  *)
(*    as itself ("a"), any other character as its code point ("U+6587"),   *)
(*    so that concatenation, startsWith, includes/split and equality are   *)
(*    computed on the characters as the code computes them;                *)
(*  - a value that may be null/undefined is a record: Null or Str(s);      *)
(*  - a Buffer is a sequence of byte values 0..255.                        *)
(***************************************************************************)
EXTENDS Naturals, Sequences, FiniteSets, TLC

(***************************************************************************)
(* String literals of the source.                                          *)
(***************************************************************************)
\* part_000:208: '文件'
KeyFileName == <<"U+6587","U+4EF6">>
\* part_000:209: 'Shopify文件URL'
KeyShopifyFileUrl == <<"S","h","o","p","i","f","y","U+6587","U+4EF6","U","R","L">>
\* part_000:211: '文件ID'
KeyFileId == <<"U+6587","U+4EF6","I","D">>
\* part_000:213: '未上传'
NotUploaded == <<"U+672A","U+4E0A","U+4F20">>
\* part_000:213: 'http'
HttpPrefix == <<"h","t","t","p">>
\* part_000:121: 'http://'
HttpScheme == <<"h","t","t","p",":","/","/">>
\* part_000:121: 'https://'
HttpsScheme == <<"h","t","t","p","s",":","/","/">>
\* part_000:291: '文件下载失败: '
ErrorEntryText == <<"U+6587","U+4EF6","U+4E0B","U+8F7D","U+5931","U+8D25",":"," ">>
\* part_000:50: '下载失败: '
DownloadFailedText == <<"U+4E0B","U+8F7D","U+5931","U+8D25",":"," ">>
\* part_000:267: '从Metaobject获取文件失败'
MetaobjectFailedMsg == <<"U+4ECE","M","e","t","a","o","b","j","e","c","t","U+83B7","U+53D6",
    "U+6587","U+4EF6","U+5931","U+8D25">>
\* part_000:141: 'Method not allowed'
MethodNotAllowedMsg == <<"M","e","t","h","o","d"," ","n","o","t"," ","a","l","l","o","w","e",
    "d">>
\* part_000:149: 'Missing draftOrderId parameter'
MissingParamMsg == <<"M","i","s","s","i","n","g"," ","d","r","a","f","t","O","r","d","e","r",
    "I","d"," ","p","a","r","a","m","e","t","e","r">>
\* part_000:150: 'GET /api/download-order-files?draftOrderId=gid://shopify/DraftOrder/123456789'
UsageMsg == <<"G","E","T"," ","/","a","p","i","/","d","o","w","n","l","o","a","d","-","o","r",
    "d","e","r","-","f","i","l","e","s","?","d","r","a","f","t","O","r","d","e","r","I","d","=",
    "g","i","d",":","/","/","s","h","o","p","i","f","y","/","D","r","a","f","t","O","r","d","e",
    "r","/","1","2","3","4","5","6","7","8","9">>
\* part_000:184: '查询订单失败'
OrderQueryFailedMsg == <<"U+67E5","U+8BE2","U+8BA2","U+5355","U+5931","U+8D25">>
\* part_000:191: '订单未找到'
OrderNotFoundMsg == <<"U+8BA2","U+5355","U+672A","U+627E","U+5230">>
\* part_000:232: '未找到可下载的文件'
NoFilesFoundMsg == <<"U+672A","U+627E","U+5230","U+53EF","U+4E0B","U+8F7D","U+7684","U+6587",
    "U+4EF6">>
\* part_000:233: '订单中没有找到有效的文件链接'
NoFilesFoundDetail == <<"U+8BA2","U+5355","U+4E2D","U+6CA1","U+6709","U+627E","U+5230","U+6709",
    "U+6548","U+7684","U+6587","U+4EF6","U+94FE","U+63A5">>
\* part_000:297: '所有文件下载失败'
AllDownloadsFailedMsg == <<"U+6240","U+6709","U+6587","U+4EF6","U+4E0B","U+8F7D","U+5931",
    "U+8D25">>
\* part_000:298: '成功: '
SuccessText == <<"U+6210","U+529F",":"," ">>
\* part_000:298: ', 失败: '
FailText == <<","," ","U+5931","U+8D25",":"," ">>
\* part_000:324: '批量下载失败'
BatchFailedMsg == <<"U+6279","U+91CF","U+4E0B","U+8F7D","U+5931","U+8D25">>
\* part_000:99: 'file_id'
FieldFileId == <<"f","i","l","e","_","i","d">>
\* part_000:116: 'file_url'
FieldFileUrl == <<"f","i","l","e","_","u","r","l">>
\* part_000:117: 'file_data'
FieldFileData == <<"f","i","l","e","_","d","a","t","a">>
\* part_000:118: 'file_name'
FieldFileName == <<"f","i","l","e","_","n","a","m","e">>
\* part_000:48 (the message of the TypeError a failed fetch rejects with): 'fetch failed'
FetchFailedMsg == <<"f","e","t","c","h"," ","f","a","i","l","e","d">>

(***************************************************************************)
(* JavaScript values and string operations.                                *)
(***************************************************************************)
Null == [t |-> "null"]
\* undefined: a parameter or a property that was not given
Undefined == [t |-> "undefined"]
Str(s) == [t |-> "string", v |-> s]
Arr(s) == [t |-> "array", v |-> s]
Obj(o) == [t |-> "object", v |-> o]

Bool(b) == [t |-> "boolean", v |-> b]

Num(n) == [t |-> "number", v |-> n]

\* !!x: null and undefined are falsy, and so are the empty string, false and 0.
Truthy(x) ==
    /\ x.t \notin {"null", "undefined"}
    /\ x.t = "string" => x.v # <<>>
    /\ x.t = "boolean" => x.v
    /\ x.t = "number" => x.v # 0

\* x || y
OrElse(x, y) == IF Truthy(x) THEN x ELSE y

\* s.startsWith(p)
StartsWith(s, p) == Len(s) >= Len(p) /\ SubSeq(s, 1, Len(p)) = p

\* s.includes(c) for a one-character c
Includes(s, c) == \E k \in 1..Len(s) : s[k] = c

\* s.indexOf(c) + 1, or Len(s) + 1 when c does not occur
IndexOf(s, c) ==
    IF Includes(s, c)
    THEN CHOOSE k \in 1..Len(s) : s[k] = c /\ \A j \in 1..(k - 1) : s[j] # c
    ELSE Len(s) + 1

\* s.split(c)[1]: the text between the first and the second occurrence of c
SplitSecond(s, c) ==
    LET rest == SubSeq(s, IndexOf(s, c) + 1, Len(s))
    IN  SubSeq(rest, 1, IndexOf(rest, c) - 1)

\* `${n}` for a non-negative integer n
RECURSIVE NumToStr(_)
NumToStr(n) ==
    LET DecimalDigits == <<"0","1","2","3","4","5","6","7","8","9">>
    IN
    IF n < 10 THEN <<DecimalDigits[n + 1]>>
    ELSE NumToStr(n \div 10) \o <<DecimalDigits[(n % 10) + 1]>>

(***************************************************************************)
(* Contents of an archive entry: a Buffer or a text.                       *)
(***************************************************************************)
BufferData(bytes) == [kind |-> "buffer", bytes |-> bytes]
TextData(text) == [kind |-> "text", text |-> text]

\* zip.file(name, data): JSZip keeps its entries in an object keyed by name,
\* so adding under a name already present replaces that entry.
ZipFile(z, name, data) ==
    [z EXCEPT !.files = [n \in (DOMAIN z.files) \cup {name} |->
                            IF n = name THEN data ELSE z.files[n]]]

\* `错误_${file.fileName}.txt`
ErrorEntryName(fileName) ==
    LET \* part_000:291: '错误_'
        ErrorEntryPrefix == <<"U+9519","U+8BEF","_">>
        \* part_000:291: '.txt'
        ErrorEntrySuffix == <<".","t","x","t">>
    IN  ErrorEntryPrefix \o fileName \o ErrorEntrySuffix

(***************************************************************************)
(* File reference extraction (handler, step 2).                            *)
(***************************************************************************)
\* const getAttr = (key) => { attributes.find(a => a.key === key) ... }
GetAttr(attributes, key) ==
    IF \E k \in 1..Len(attributes) : attributes[k].key = key
    THEN attributes[CHOOSE k \in 1..Len(attributes) :
                        /\ attributes[k].key = key
                        /\ \A j \in 1..(k - 1) : attributes[j].key # key].value
    ELSE Null

\* A faulty variant of ExtractLineItem: the indirect file identifier is not looked at.
ExtractLineItemDropsIndirect(lineItem) ==
    LET \* '未知文件'
        UnknownFileName == <<"U+672A","U+77E5","U+6587","U+4EF6">>
    IN
    LET attributes == IF Truthy(lineItem.customAttributes)
                      THEN lineItem.customAttributes.v ELSE <<>>
        fileName == OrElse(OrElse(GetAttr(attributes, KeyFileName), lineItem.title),
                           Str(UnknownFileName))
        shopifyFileUrl == GetAttr(attributes, KeyShopifyFileUrl)
    IN  IF /\ Truthy(shopifyFileUrl)
           /\ shopifyFileUrl.v # NotUploaded
           /\ StartsWith(shopifyFileUrl.v, HttpPrefix)
        THEN <<[fileName |-> fileName.v, url |-> shopifyFileUrl.v, type |-> "shopify_url"]>>
        ELSE <<>>

\* A faulty variant of ExtractLineItem: the indirect identifier is looked at
\* before the direct URL.
ExtractLineItemIdFirst(lineItem) ==
    LET \* '未知文件'
        UnknownFileName == <<"U+672A","U+77E5","U+6587","U+4EF6">>
    IN
    LET attributes == IF Truthy(lineItem.customAttributes)
                      THEN lineItem.customAttributes.v ELSE <<>>
        fileName == OrElse(OrElse(GetAttr(attributes, KeyFileName), lineItem.title),
                           Str(UnknownFileName))
        shopifyFileUrl == GetAttr(attributes, KeyShopifyFileUrl)
        fileId == GetAttr(attributes, KeyFileId)
    IN  IF Truthy(fileId)
        THEN <<[fileName |-> fileName.v, fileId |-> fileId.v, type |-> "metaobject"]>>
        ELSE IF /\ Truthy(shopifyFileUrl)
                /\ shopifyFileUrl.v # NotUploaded
                /\ StartsWith(shopifyFileUrl.v, HttpPrefix)
        THEN <<[fileName |-> fileName.v, url |-> shopifyFileUrl.v, type |-> "shopify_url"]>>
        ELSE <<>>

\* The body of the loop over draftOrder.lineItems.edges: the entries (none
\* or one) that one line item pushes to files.
ExtractLineItem(lineItem) ==
    LET \* part_000:208: '未知文件'
        UnknownFileName == <<"U+672A","U+77E5","U+6587","U+4EF6">>
    IN
    LET attributes == IF Truthy(lineItem.customAttributes)
                      THEN lineItem.customAttributes.v ELSE <<>>
        fileName == OrElse(OrElse(GetAttr(attributes, KeyFileName), lineItem.title),
                           Str(UnknownFileName))
        shopifyFileUrl == GetAttr(attributes, KeyShopifyFileUrl)
        fileId == GetAttr(attributes, KeyFileId)
    IN  IF /\ Truthy(shopifyFileUrl)
           /\ shopifyFileUrl.v # NotUploaded
           /\ StartsWith(shopifyFileUrl.v, HttpPrefix)
        THEN <<[fileName |-> fileName.v, url |-> shopifyFileUrl.v, type |-> "shopify_url"]>>
        ELSE IF Truthy(fileId)
        THEN <<[fileName |-> fileName.v, fileId |-> fileId.v, type |-> "metaobject"]>>
        ELSE <<>>

RECURSIVE ExtractFiles(_)
ExtractFiles(edges) ==
    IF edges = <<>> THEN <<>>
    ELSE ExtractLineItem(Head(edges).node) \o ExtractFiles(Tail(edges))

(***************************************************************************)
(* Bounds of the model and the inputs drawn within them.                   *)
(***************************************************************************)
\* Largest number of line items of an order (the query asks for first: 50).
MaxLineItems == 2

\* Number of request slots; Init decides which of them carry a request.
MaxRequests == 2

Requests == 1..MaxRequests

Attr(key, value) == [key |-> key, value |-> Str(value)]

UrlB == <<"h","t","t","p","s",":","/","/","b">>
UrlFtp == <<"f","t","p",":","/","/","a">>
FileId1 == <<"f","1">>
FileId2 == <<"f","2">>
NameA == <<"a">>
NameB == <<"b">>

\* Line items as the order query returns them: title and customAttributes.
LineItemDirectA ==
    LET UrlA == <<"h","t","t","p",":","/","/","a">>
    IN
    [title |-> Str(<<"t">>),
     customAttributes |-> Arr(<<Attr(KeyFileName, NameA), Attr(KeyShopifyFileUrl, UrlA)>>)]
LineItemIndirect ==
    [title |-> Str(NameB),
     customAttributes |-> Arr(<<Attr(KeyShopifyFileUrl, NotUploaded),
                                Attr(KeyFileId, FileId1)>>)]

Thrown(message) == [kind |-> "throw", message |-> message]
Json(errors, data) == [kind |-> "json", json |-> [data |-> data, errors |-> errors]]
GqlErrors == Arr(<<[message |-> <<"e">>]>>)

\* Metaobject records: fields { key value }.
Field(key, value) == [key |-> key, value |-> value]
Base64A == <<"Q","Q","=","=">>
RecordUrl ==
    [fields |-> <<Field(FieldFileId, FileId1), Field(FieldFileUrl, UrlB),
                  Field(FieldFileData, Base64A)>>]
RecordDataUrl ==
    LET DataUrlAB == <<"d","a","t","a",":",";","b","a","s","e","6","4",",","Q","U","I","=">>
    IN
    [fields |-> <<Field(FieldFileId, FileId1), Field(FieldFileData, DataUrlAB),
                  Field(FieldFileName, NameA)>>]
RecordBase64 ==
    [fields |-> <<Field(FieldFileId, FileId2), Field(FieldFileData, Base64A)>>]
RecordEmpty ==
    [fields |-> <<Field(FieldFileId, FileId1), Field(FieldFileUrl, UrlFtp)>>]

\* What fetch(fileUrl) can come back with: a rejection or a response.
Response(status, statusText, body) ==
    [kind |-> "response", status |-> status, statusText |-> statusText, body |-> body]

DraftOrderId == <<"g","i","d",":","1">>

(***************************************************************************)
(* State.  Every request slot r has the handler invocation's own locals    *)
(* and response object; envConfigured is the process environment           *)
(* (SHOPIFY_STORE_DOMAIN and SHOPIFY_ACCESS_TOKEN both set).               *)
(***************************************************************************)
(***************************************************************************)
(* AuthService (part_001) and the admin list of cors-config (part_002).    *)
(***************************************************************************)
\* part_001:72: the values of the admin flag that grant, ['1', 'true', 'yes']
AdminFlagValues ==
    LET \* part_001:72: '1'
        FlagOne == <<"1">>
        \* part_001:72: 'true'
        FlagTrue == <<"t","r","u","e">>
        \* part_001:72: 'yes'
        FlagYes == <<"y","e","s">>
    IN  <<FlagOne, FlagTrue, FlagYes>>

(***************************************************************************)
(* Characters.  A string is a sequence of UTF-16 code units, each written  *)
(* as the character itself when it is printable ASCII (the grave accent,  *)
(* which a TLA+ string cannot hold, apart) or one of \t, \n, \f and \r,    *)
(* and as "U+XXXX" otherwise.  CodePoint(n) is the string of code point n: *)
(* one code unit, or a surrogate pair above U+FFFF.                        *)
(***************************************************************************)
CodePoint(n) ==
    LET Hex == <<"0","1","2","3","4","5","6","7","8","9","A","B","C","D","E","F">>
        Printable ==
            <<" ","!","\"","#","$","%","&","'","(",")","*","+",",","-",".","/","0","1","2",
              "3","4","5","6","7","8","9",":",";","<","=",">","?","@","A","B","C","D","E","F",
              "G","H","I","J","K","L","M","N","O","P","Q","R","S","T","U","V","W","X","Y","Z",
              "[","\\","]","^","_","U+0060","a","b","c","d","e","f","g","h","i","j","k","l","m",
              "n","o","p","q","r","s","t","u","v","w","x","y","z","{","|","}","~">>
        CodeUnit(u) ==
            IF u \in 32..126 THEN Printable[u - 31]
            ELSE IF u = 9 THEN "\t"
            ELSE IF u = 10 THEN "\n"
            ELSE IF u = 12 THEN "\f"
            ELSE IF u = 13 THEN "\r"
            ELSE "U+" \o Hex[(u \div 4096) + 1] \o Hex[((u \div 256) % 16) + 1]
                      \o Hex[((u \div 16) % 16) + 1] \o Hex[(u % 16) + 1]
    IN  IF n < 65536 THEN <<CodeUnit(n)>>
        ELSE <<CodeUnit(\hD800 + ((n - 65536) \div 1024)),
               CodeUnit(\hDC00 + ((n - 65536) % 1024))>>

\* The code units U+D800..U+DBFF and U+DC00..U+DFFF.
HighSurrogates == {CodePoint(n)[1] : n \in \hD800..\hDBFF}
LowSurrogates == {CodePoint(n)[1] : n \in \hDC00..\hDFFF}

\* String.prototype.trim: white space and line terminators off both ends.
WhiteSpace ==
    {CodePoint(n)[1] : n \in (\h0009..\h000D) \cup {\h0020, \h00A0, \h1680}
                               \cup (\h2000..\h200A)
                               \cup {\h2028, \h2029, \h202F, \h205F, \h3000, \hFEFF}}
Trim(s) ==
    LET RECURSIVE TrimStart(_)
        TrimStart(t) == IF t # <<>> /\ Head(t) \in WhiteSpace THEN TrimStart(Tail(t)) ELSE t
        RECURSIVE TrimEnd(_)
        TrimEnd(t) ==
            IF t # <<>> /\ t[Len(t)] \in WhiteSpace
            THEN TrimEnd(SubSeq(t, 1, Len(t) - 1))
            ELSE t
    IN  TrimEnd(TrimStart(s))

(***************************************************************************)
(* Buffer.from(text, 'base64'): the decoder reads a code unit by its low   *)
(* byte, so U+0141 is read as 'A' and U+D83D as '='.  It reads the         *)
(* standard alphabet and the URL-safe one ('-' for '+', '_' for '/'),      *)
(* skips every other character, stops at the first '=', and every complete *)
(* group of 4, 3 or 2 sextets yields 3, 2 or 1 bytes.                      *)
(***************************************************************************)
Base64Alphabet ==
    <<"A","B","C","D","E","F","G","H","I","J","K","L","M","N","O","P","Q","R","S","T","U","V",
      "W","X","Y","Z","a","b","c","d","e","f","g","h","i","j","k","l","m","n","o","p","q","r",
      "s","t","u","v","w","x","y","z","0","1","2","3","4","5","6","7","8","9","+","/">>

\* The code units whose low byte is b.
CodeUnitsWithLowByte == [b \in 0..255 |-> {CodePoint(256 * h + b)[1] : h \in 0..255}]

\* The sextet a character stands for, or 64 for a character the decoder skips.
Base64Value(c) ==
    LET read == CodePoint(CHOOSE b \in 0..255 : c \in CodeUnitsWithLowByte[b])[1]
        standard == IF read = "-" THEN "+" ELSE IF read = "_" THEN "/" ELSE read
    IN  IF Includes(Base64Alphabet, standard)
        THEN (CHOOSE k \in 1..Len(Base64Alphabet) : Base64Alphabet[k] = standard) - 1
        ELSE 64

RECURSIVE Base64Sextets(_)
Base64Sextets(s) ==
    IF s = <<>> \/ Head(s) \in CodeUnitsWithLowByte[\h3D] THEN <<>>
    ELSE IF Base64Value(Head(s)) < 64
         THEN <<Base64Value(Head(s))>> \o Base64Sextets(Tail(s))
         ELSE Base64Sextets(Tail(s))

RECURSIVE Base64Bytes(_)
Base64Bytes(x) ==
    IF Len(x) >= 4
    THEN LET n == ((x[1] * 64 + x[2]) * 64 + x[3]) * 64 + x[4]
         IN  <<n \div 65536, (n \div 256) % 256, n % 256>>
                 \o Base64Bytes(SubSeq(x, 5, Len(x)))
    ELSE IF Len(x) = 3
    THEN LET n == (x[1] * 64 + x[2]) * 64 + x[3]
         IN  <<n \div 1024, (n \div 4) % 256>>
    ELSE IF Len(x) = 2
    THEN <<(x[1] * 64 + x[2]) \div 16>>
    ELSE <<>>

BufferFromBase64(s) == Base64Bytes(Base64Sextets(s))

(***************************************************************************)
(* String.prototype.toLowerCase: the locale-independent lower-case mapping *)
(* of the Unicode Character Database, in the version the runtime is built  *)
(* with: the repository asks for Node 18 or later, and the releases of     *)
(* Node differ in it (Unicode 14 in the first releases of Node 18, 15 in   *)
(* Node 18.20, 16 in the releases built with ICU 76 or 77, 17 in Node      *)
(* 20.20 and 22.22).  The tables below give version 14 and what each later *)
(* version adds to it or takes from it.                                    *)
(* A row <<first, last, step, lower>> of LowerCaseRows maps the code       *)
(* points first, first + step, ..., last to lower, lower + step, ...;      *)
(* U+0130 becomes two code points, and U+03A3 depends on its neighbours    *)
(* (see ToLowerCase).                                                      *)
(***************************************************************************)
VARIABLE unicodeVersion  \* process.versions.unicode, its major number

UnicodeVersions == {14, 15, 16, 17}

LowerCaseOf ==
    [v \in UnicodeVersions |->
        LET LowerCaseRows == {
                <<\h0041, \h005A, 1, \h0061>>, <<\h00C0, \h00D6, 1, \h00E0>>,
                <<\h00D8, \h00DE, 1, \h00F8>>, <<\h0100, \h012E, 2, \h0101>>,
                <<\h0132, \h0136, 2, \h0133>>, <<\h0139, \h0147, 2, \h013A>>,
                <<\h014A, \h0176, 2, \h014B>>, <<\h0178, \h0178, 1, \h00FF>>,
                <<\h0179, \h017D, 2, \h017A>>, <<\h0181, \h0181, 1, \h0253>>,
                <<\h0182, \h0184, 2, \h0183>>, <<\h0186, \h0186, 1, \h0254>>,
                <<\h0187, \h0187, 1, \h0188>>, <<\h0189, \h018A, 1, \h0256>>,
                <<\h018B, \h018B, 1, \h018C>>, <<\h018E, \h018E, 1, \h01DD>>,
                <<\h018F, \h018F, 1, \h0259>>, <<\h0190, \h0190, 1, \h025B>>,
                <<\h0191, \h0191, 1, \h0192>>, <<\h0193, \h0193, 1, \h0260>>,
                <<\h0194, \h0194, 1, \h0263>>, <<\h0196, \h0196, 1, \h0269>>,
                <<\h0197, \h0197, 1, \h0268>>, <<\h0198, \h0198, 1, \h0199>>,
                <<\h019C, \h019C, 1, \h026F>>, <<\h019D, \h019D, 1, \h0272>>,
                <<\h019F, \h019F, 1, \h0275>>, <<\h01A0, \h01A4, 2, \h01A1>>,
                <<\h01A6, \h01A6, 1, \h0280>>, <<\h01A7, \h01A7, 1, \h01A8>>,
                <<\h01A9, \h01A9, 1, \h0283>>, <<\h01AC, \h01AC, 1, \h01AD>>,
                <<\h01AE, \h01AE, 1, \h0288>>, <<\h01AF, \h01AF, 1, \h01B0>>,
                <<\h01B1, \h01B2, 1, \h028A>>, <<\h01B3, \h01B5, 2, \h01B4>>,
                <<\h01B7, \h01B7, 1, \h0292>>, <<\h01B8, \h01B8, 1, \h01B9>>,
                <<\h01BC, \h01BC, 1, \h01BD>>, <<\h01C4, \h01C4, 1, \h01C6>>,
                <<\h01C5, \h01C5, 1, \h01C6>>, <<\h01C7, \h01C7, 1, \h01C9>>,
                <<\h01C8, \h01C8, 1, \h01C9>>, <<\h01CA, \h01CA, 1, \h01CC>>,
                <<\h01CB, \h01DB, 2, \h01CC>>, <<\h01DE, \h01EE, 2, \h01DF>>,
                <<\h01F1, \h01F1, 1, \h01F3>>, <<\h01F2, \h01F4, 2, \h01F3>>,
                <<\h01F6, \h01F6, 1, \h0195>>, <<\h01F7, \h01F7, 1, \h01BF>>,
                <<\h01F8, \h021E, 2, \h01F9>>, <<\h0220, \h0220, 1, \h019E>>,
                <<\h0222, \h0232, 2, \h0223>>, <<\h023A, \h023A, 1, \h2C65>>,
                <<\h023B, \h023B, 1, \h023C>>, <<\h023D, \h023D, 1, \h019A>>,
                <<\h023E, \h023E, 1, \h2C66>>, <<\h0241, \h0241, 1, \h0242>>,
                <<\h0243, \h0243, 1, \h0180>>, <<\h0244, \h0244, 1, \h0289>>,
                <<\h0245, \h0245, 1, \h028C>>, <<\h0246, \h024E, 2, \h0247>>,
                <<\h0370, \h0372, 2, \h0371>>, <<\h0376, \h0376, 1, \h0377>>,
                <<\h037F, \h037F, 1, \h03F3>>, <<\h0386, \h0386, 1, \h03AC>>,
                <<\h0388, \h038A, 1, \h03AD>>, <<\h038C, \h038C, 1, \h03CC>>,
                <<\h038E, \h038F, 1, \h03CD>>, <<\h0391, \h03A1, 1, \h03B1>>,
                <<\h03A3, \h03AB, 1, \h03C3>>, <<\h03CF, \h03CF, 1, \h03D7>>,
                <<\h03D8, \h03EE, 2, \h03D9>>, <<\h03F4, \h03F4, 1, \h03B8>>,
                <<\h03F7, \h03F7, 1, \h03F8>>, <<\h03F9, \h03F9, 1, \h03F2>>,
                <<\h03FA, \h03FA, 1, \h03FB>>, <<\h03FD, \h03FF, 1, \h037B>>,
                <<\h0400, \h040F, 1, \h0450>>, <<\h0410, \h042F, 1, \h0430>>,
                <<\h0460, \h0480, 2, \h0461>>, <<\h048A, \h04BE, 2, \h048B>>,
                <<\h04C0, \h04C0, 1, \h04CF>>, <<\h04C1, \h04CD, 2, \h04C2>>,
                <<\h04D0, \h052E, 2, \h04D1>>, <<\h0531, \h0556, 1, \h0561>>,
                <<\h10A0, \h10C5, 1, \h2D00>>, <<\h10C7, \h10C7, 1, \h2D27>>,
                <<\h10CD, \h10CD, 1, \h2D2D>>, <<\h13A0, \h13EF, 1, \hAB70>>,
                <<\h13F0, \h13F5, 1, \h13F8>>, <<\h1C90, \h1CBA, 1, \h10D0>>,
                <<\h1CBD, \h1CBF, 1, \h10FD>>, <<\h1E00, \h1E94, 2, \h1E01>>,
                <<\h1E9E, \h1E9E, 1, \h00DF>>, <<\h1EA0, \h1EFE, 2, \h1EA1>>,
                <<\h1F08, \h1F0F, 1, \h1F00>>, <<\h1F18, \h1F1D, 1, \h1F10>>,
                <<\h1F28, \h1F2F, 1, \h1F20>>, <<\h1F38, \h1F3F, 1, \h1F30>>,
                <<\h1F48, \h1F4D, 1, \h1F40>>, <<\h1F59, \h1F5F, 2, \h1F51>>,
                <<\h1F68, \h1F6F, 1, \h1F60>>, <<\h1F88, \h1F8F, 1, \h1F80>>,
                <<\h1F98, \h1F9F, 1, \h1F90>>, <<\h1FA8, \h1FAF, 1, \h1FA0>>,
                <<\h1FB8, \h1FB9, 1, \h1FB0>>, <<\h1FBA, \h1FBB, 1, \h1F70>>,
                <<\h1FBC, \h1FBC, 1, \h1FB3>>, <<\h1FC8, \h1FCB, 1, \h1F72>>,
                <<\h1FCC, \h1FCC, 1, \h1FC3>>, <<\h1FD8, \h1FD9, 1, \h1FD0>>,
                <<\h1FDA, \h1FDB, 1, \h1F76>>, <<\h1FE8, \h1FE9, 1, \h1FE0>>,
                <<\h1FEA, \h1FEB, 1, \h1F7A>>, <<\h1FEC, \h1FEC, 1, \h1FE5>>,
                <<\h1FF8, \h1FF9, 1, \h1F78>>, <<\h1FFA, \h1FFB, 1, \h1F7C>>,
                <<\h1FFC, \h1FFC, 1, \h1FF3>>, <<\h2126, \h2126, 1, \h03C9>>,
                <<\h212A, \h212A, 1, \h006B>>, <<\h212B, \h212B, 1, \h00E5>>,
                <<\h2132, \h2132, 1, \h214E>>, <<\h2160, \h216F, 1, \h2170>>,
                <<\h2183, \h2183, 1, \h2184>>, <<\h24B6, \h24CF, 1, \h24D0>>,
                <<\h2C00, \h2C2F, 1, \h2C30>>, <<\h2C60, \h2C60, 1, \h2C61>>,
                <<\h2C62, \h2C62, 1, \h026B>>, <<\h2C63, \h2C63, 1, \h1D7D>>,
                <<\h2C64, \h2C64, 1, \h027D>>, <<\h2C67, \h2C6B, 2, \h2C68>>,
                <<\h2C6D, \h2C6D, 1, \h0251>>, <<\h2C6E, \h2C6E, 1, \h0271>>,
                <<\h2C6F, \h2C6F, 1, \h0250>>, <<\h2C70, \h2C70, 1, \h0252>>,
                <<\h2C72, \h2C72, 1, \h2C73>>, <<\h2C75, \h2C75, 1, \h2C76>>,
                <<\h2C7E, \h2C7F, 1, \h023F>>, <<\h2C80, \h2CE2, 2, \h2C81>>,
                <<\h2CEB, \h2CED, 2, \h2CEC>>, <<\h2CF2, \h2CF2, 1, \h2CF3>>,
                <<\hA640, \hA66C, 2, \hA641>>, <<\hA680, \hA69A, 2, \hA681>>,
                <<\hA722, \hA72E, 2, \hA723>>, <<\hA732, \hA76E, 2, \hA733>>,
                <<\hA779, \hA77B, 2, \hA77A>>, <<\hA77D, \hA77D, 1, \h1D79>>,
                <<\hA77E, \hA786, 2, \hA77F>>, <<\hA78B, \hA78B, 1, \hA78C>>,
                <<\hA78D, \hA78D, 1, \h0265>>, <<\hA790, \hA792, 2, \hA791>>,
                <<\hA796, \hA7A8, 2, \hA797>>, <<\hA7AA, \hA7AA, 1, \h0266>>,
                <<\hA7AB, \hA7AB, 1, \h025C>>, <<\hA7AC, \hA7AC, 1, \h0261>>,
                <<\hA7AD, \hA7AD, 1, \h026C>>, <<\hA7AE, \hA7AE, 1, \h026A>>,
                <<\hA7B0, \hA7B0, 1, \h029E>>, <<\hA7B1, \hA7B1, 1, \h0287>>,
                <<\hA7B2, \hA7B2, 1, \h029D>>, <<\hA7B3, \hA7B3, 1, \hAB53>>,
                <<\hA7B4, \hA7C2, 2, \hA7B5>>, <<\hA7C4, \hA7C4, 1, \hA794>>,
                <<\hA7C5, \hA7C5, 1, \h0282>>, <<\hA7C6, \hA7C6, 1, \h1D8E>>,
                <<\hA7C7, \hA7C9, 2, \hA7C8>>, <<\hA7D0, \hA7D0, 1, \hA7D1>>,
                <<\hA7D6, \hA7D8, 2, \hA7D7>>, <<\hA7F5, \hA7F5, 1, \hA7F6>>,
                <<\hFF21, \hFF3A, 1, \hFF41>>, <<\h10400, \h10427, 1, \h10428>>,
                <<\h104B0, \h104D3, 1, \h104D8>>, <<\h10570, \h1057A, 1, \h10597>>,
                <<\h1057C, \h1058A, 1, \h105A3>>, <<\h1058C, \h10592, 1, \h105B3>>,
                <<\h10594, \h10595, 1, \h105BB>>, <<\h10C80, \h10CB2, 1, \h10CC0>>,
                <<\h118A0, \h118BF, 1, \h118C0>>, <<\h16E40, \h16E5F, 1, \h16E60>>,
                <<\h1E900, \h1E921, 1, \h1E922>>}
                \* the capital letters Unicode 16 adds
                \cup (IF v >= 16 THEN {
                <<\h1C89, \h1C89, 1, \h1C8A>>, <<\hA7CB, \hA7CB, 1, \h0264>>,
                <<\hA7CC, \hA7CC, 1, \hA7CD>>, <<\hA7DA, \hA7DA, 1, \hA7DB>>,
                <<\hA7DC, \hA7DC, 1, \h019B>>, <<\h10D50, \h10D65, 1, \h10D70>>} ELSE {})
                \* the capital letters Unicode 17 adds
                \cup (IF v >= 17 THEN {
                <<\hA7CE, \hA7CE, 1, \hA7CF>>, <<\hA7D2, \hA7D4, 2, \hA7D3>>,
                <<\h16EA0, \h16EB8, 1, \h16EBB>>} ELSE {})
            LowerCasePairs ==
                UNION {{<<CodePoint(r[1] + (m * r[3])), CodePoint(r[4] + (m * r[3]))>> :
                            m \in 0..((r[2] - r[1]) \div r[3])} : r \in LowerCaseRows}
                \cup {<<CodePoint(\h0130), <<"i", "U+0307">>>>}
        IN  [c \in {q[1] : q \in LowerCasePairs} |->
                (CHOOSE q \in LowerCasePairs : q[1] = c)[2]]]

\* The code points with the property Case_Ignorable in each version, from ranges
\* <<first, last>> of code points.
CaseIgnorable ==
    [v \in UnicodeVersions |->
        UNION {{CodePoint(n) : n \in r[1]..r[2]} : r \in
            ({
            <<\h0027, \h0027>>, <<\h002E, \h002E>>, <<\h003A, \h003A>>, <<\h005E, \h005E>>,
            <<\h0060, \h0060>>, <<\h00A8, \h00A8>>, <<\h00AD, \h00AD>>, <<\h00AF, \h00AF>>,
            <<\h00B4, \h00B4>>, <<\h00B7, \h00B8>>, <<\h02B0, \h036F>>, <<\h0374, \h0375>>,
            <<\h037A, \h037A>>, <<\h0384, \h0385>>, <<\h0387, \h0387>>, <<\h0483, \h0489>>,
            <<\h0559, \h0559>>, <<\h055F, \h055F>>, <<\h0591, \h05BD>>, <<\h05BF, \h05BF>>,
            <<\h05C1, \h05C2>>, <<\h05C4, \h05C5>>, <<\h05C7, \h05C7>>, <<\h05F4, \h05F4>>,
            <<\h0600, \h0605>>, <<\h0610, \h061A>>, <<\h061C, \h061C>>, <<\h0640, \h0640>>,
            <<\h064B, \h065F>>, <<\h0670, \h0670>>, <<\h06D6, \h06DD>>, <<\h06DF, \h06E8>>,
            <<\h06EA, \h06ED>>, <<\h070F, \h070F>>, <<\h0711, \h0711>>, <<\h0730, \h074A>>,
            <<\h07A6, \h07B0>>, <<\h07EB, \h07F5>>, <<\h07FA, \h07FA>>, <<\h07FD, \h07FD>>,
            <<\h0816, \h082D>>, <<\h0859, \h085B>>, <<\h0888, \h0888>>, <<\h0890, \h0891>>,
            <<\h0898, \h089F>>, <<\h08C9, \h0902>>, <<\h093A, \h093A>>, <<\h093C, \h093C>>,
            <<\h0941, \h0948>>, <<\h094D, \h094D>>, <<\h0951, \h0957>>, <<\h0962, \h0963>>,
            <<\h0971, \h0971>>, <<\h0981, \h0981>>, <<\h09BC, \h09BC>>, <<\h09C1, \h09C4>>,
            <<\h09CD, \h09CD>>, <<\h09E2, \h09E3>>, <<\h09FE, \h09FE>>, <<\h0A01, \h0A02>>,
            <<\h0A3C, \h0A3C>>, <<\h0A41, \h0A42>>, <<\h0A47, \h0A48>>, <<\h0A4B, \h0A4D>>,
            <<\h0A51, \h0A51>>, <<\h0A70, \h0A71>>, <<\h0A75, \h0A75>>, <<\h0A81, \h0A82>>,
            <<\h0ABC, \h0ABC>>, <<\h0AC1, \h0AC5>>, <<\h0AC7, \h0AC8>>, <<\h0ACD, \h0ACD>>,
            <<\h0AE2, \h0AE3>>, <<\h0AFA, \h0AFF>>, <<\h0B01, \h0B01>>, <<\h0B3C, \h0B3C>>,
            <<\h0B3F, \h0B3F>>, <<\h0B41, \h0B44>>, <<\h0B4D, \h0B4D>>, <<\h0B55, \h0B56>>,
            <<\h0B62, \h0B63>>, <<\h0B82, \h0B82>>, <<\h0BC0, \h0BC0>>, <<\h0BCD, \h0BCD>>,
            <<\h0C00, \h0C00>>, <<\h0C04, \h0C04>>, <<\h0C3C, \h0C3C>>, <<\h0C3E, \h0C40>>,
            <<\h0C46, \h0C48>>, <<\h0C4A, \h0C4D>>, <<\h0C55, \h0C56>>, <<\h0C62, \h0C63>>,
            <<\h0C81, \h0C81>>, <<\h0CBC, \h0CBC>>, <<\h0CBF, \h0CBF>>, <<\h0CC6, \h0CC6>>,
            <<\h0CCC, \h0CCD>>, <<\h0CE2, \h0CE3>>, <<\h0D00, \h0D01>>, <<\h0D3B, \h0D3C>>,
            <<\h0D41, \h0D44>>, <<\h0D4D, \h0D4D>>, <<\h0D62, \h0D63>>, <<\h0D81, \h0D81>>,
            <<\h0DCA, \h0DCA>>, <<\h0DD2, \h0DD4>>, <<\h0DD6, \h0DD6>>, <<\h0E31, \h0E31>>,
            <<\h0E34, \h0E3A>>, <<\h0E46, \h0E4E>>, <<\h0EB1, \h0EB1>>, <<\h0EB4, \h0EBC>>,
            <<\h0EC6, \h0EC6>>, <<\h0EC8, \h0ECD>>, <<\h0F18, \h0F19>>, <<\h0F35, \h0F35>>,
            <<\h0F37, \h0F37>>, <<\h0F39, \h0F39>>, <<\h0F71, \h0F7E>>, <<\h0F80, \h0F84>>,
            <<\h0F86, \h0F87>>, <<\h0F8D, \h0F97>>, <<\h0F99, \h0FBC>>, <<\h0FC6, \h0FC6>>,
            <<\h102D, \h1030>>, <<\h1032, \h1037>>, <<\h1039, \h103A>>, <<\h103D, \h103E>>,
            <<\h1058, \h1059>>, <<\h105E, \h1060>>, <<\h1071, \h1074>>, <<\h1082, \h1082>>,
            <<\h1085, \h1086>>, <<\h108D, \h108D>>, <<\h109D, \h109D>>, <<\h10FC, \h10FC>>,
            <<\h135D, \h135F>>, <<\h1712, \h1714>>, <<\h1732, \h1733>>, <<\h1752, \h1753>>,
            <<\h1772, \h1773>>, <<\h17B4, \h17B5>>, <<\h17B7, \h17BD>>, <<\h17C6, \h17C6>>,
            <<\h17C9, \h17D3>>, <<\h17D7, \h17D7>>, <<\h17DD, \h17DD>>, <<\h180B, \h180F>>,
            <<\h1843, \h1843>>, <<\h1885, \h1886>>, <<\h18A9, \h18A9>>, <<\h1920, \h1922>>,
            <<\h1927, \h1928>>, <<\h1932, \h1932>>, <<\h1939, \h193B>>, <<\h1A17, \h1A18>>,
            <<\h1A1B, \h1A1B>>, <<\h1A56, \h1A56>>, <<\h1A58, \h1A5E>>, <<\h1A60, \h1A60>>,
            <<\h1A62, \h1A62>>, <<\h1A65, \h1A6C>>, <<\h1A73, \h1A7C>>, <<\h1A7F, \h1A7F>>,
            <<\h1AA7, \h1AA7>>, <<\h1AB0, \h1ACE>>, <<\h1B00, \h1B03>>, <<\h1B34, \h1B34>>,
            <<\h1B36, \h1B3A>>, <<\h1B3C, \h1B3C>>, <<\h1B42, \h1B42>>, <<\h1B6B, \h1B73>>,
            <<\h1B80, \h1B81>>, <<\h1BA2, \h1BA5>>, <<\h1BA8, \h1BA9>>, <<\h1BAB, \h1BAD>>,
            <<\h1BE6, \h1BE6>>, <<\h1BE8, \h1BE9>>, <<\h1BED, \h1BED>>, <<\h1BEF, \h1BF1>>,
            <<\h1C2C, \h1C33>>, <<\h1C36, \h1C37>>, <<\h1C78, \h1C7D>>, <<\h1CD0, \h1CD2>>,
            <<\h1CD4, \h1CE0>>, <<\h1CE2, \h1CE8>>, <<\h1CED, \h1CED>>, <<\h1CF4, \h1CF4>>,
            <<\h1CF8, \h1CF9>>, <<\h1D2C, \h1D6A>>, <<\h1D78, \h1D78>>, <<\h1D9B, \h1DFF>>,
            <<\h1FBD, \h1FBD>>, <<\h1FBF, \h1FC1>>, <<\h1FCD, \h1FCF>>, <<\h1FDD, \h1FDF>>,
            <<\h1FED, \h1FEF>>, <<\h1FFD, \h1FFE>>, <<\h200B, \h200F>>, <<\h2018, \h2019>>,
            <<\h2024, \h2024>>, <<\h2027, \h2027>>, <<\h202A, \h202E>>, <<\h2060, \h2064>>,
            <<\h2066, \h206F>>, <<\h2071, \h2071>>, <<\h207F, \h207F>>, <<\h2090, \h209C>>,
            <<\h20D0, \h20F0>>, <<\h2C7C, \h2C7D>>, <<\h2CEF, \h2CF1>>, <<\h2D6F, \h2D6F>>,
            <<\h2D7F, \h2D7F>>, <<\h2DE0, \h2DFF>>, <<\h2E2F, \h2E2F>>, <<\h3005, \h3005>>,
            <<\h302A, \h302D>>, <<\h3031, \h3035>>, <<\h303B, \h303B>>, <<\h3099, \h309E>>,
            <<\h30FC, \h30FE>>, <<\hA015, \hA015>>, <<\hA4F8, \hA4FD>>, <<\hA60C, \hA60C>>,
            <<\hA66F, \hA672>>, <<\hA674, \hA67D>>, <<\hA67F, \hA67F>>, <<\hA69C, \hA69F>>,
            <<\hA6F0, \hA6F1>>, <<\hA700, \hA721>>, <<\hA770, \hA770>>, <<\hA788, \hA78A>>,
            <<\hA7F2, \hA7F4>>, <<\hA7F8, \hA7F9>>, <<\hA802, \hA802>>, <<\hA806, \hA806>>,
            <<\hA80B, \hA80B>>, <<\hA825, \hA826>>, <<\hA82C, \hA82C>>, <<\hA8C4, \hA8C5>>,
            <<\hA8E0, \hA8F1>>, <<\hA8FF, \hA8FF>>, <<\hA926, \hA92D>>, <<\hA947, \hA951>>,
            <<\hA980, \hA982>>, <<\hA9B3, \hA9B3>>, <<\hA9B6, \hA9B9>>, <<\hA9BC, \hA9BD>>,
            <<\hA9CF, \hA9CF>>, <<\hA9E5, \hA9E6>>, <<\hAA29, \hAA2E>>, <<\hAA31, \hAA32>>,
            <<\hAA35, \hAA36>>, <<\hAA43, \hAA43>>, <<\hAA4C, \hAA4C>>, <<\hAA70, \hAA70>>,
            <<\hAA7C, \hAA7C>>, <<\hAAB0, \hAAB0>>, <<\hAAB2, \hAAB4>>, <<\hAAB7, \hAAB8>>,
            <<\hAABE, \hAABF>>, <<\hAAC1, \hAAC1>>, <<\hAADD, \hAADD>>, <<\hAAEC, \hAAED>>,
            <<\hAAF3, \hAAF4>>, <<\hAAF6, \hAAF6>>, <<\hAB5B, \hAB5F>>, <<\hAB69, \hAB6B>>,
            <<\hABE5, \hABE5>>, <<\hABE8, \hABE8>>, <<\hABED, \hABED>>, <<\hFB1E, \hFB1E>>,
            <<\hFBB2, \hFBC2>>, <<\hFE00, \hFE0F>>, <<\hFE13, \hFE13>>, <<\hFE20, \hFE2F>>,
            <<\hFE52, \hFE52>>, <<\hFE55, \hFE55>>, <<\hFEFF, \hFEFF>>, <<\hFF07, \hFF07>>,
            <<\hFF0E, \hFF0E>>, <<\hFF1A, \hFF1A>>, <<\hFF3E, \hFF3E>>, <<\hFF40, \hFF40>>,
            <<\hFF70, \hFF70>>, <<\hFF9E, \hFF9F>>, <<\hFFE3, \hFFE3>>, <<\hFFF9, \hFFFB>>,
            <<\h101FD, \h101FD>>, <<\h102E0, \h102E0>>, <<\h10376, \h1037A>>,
            <<\h10780, \h10785>>, <<\h10787, \h107B0>>, <<\h107B2, \h107BA>>,
            <<\h10A01, \h10A03>>, <<\h10A05, \h10A06>>, <<\h10A0C, \h10A0F>>,
            <<\h10A38, \h10A3A>>, <<\h10A3F, \h10A3F>>, <<\h10AE5, \h10AE6>>,
            <<\h10D24, \h10D27>>, <<\h10EAB, \h10EAC>>, <<\h10F46, \h10F50>>,
            <<\h10F82, \h10F85>>, <<\h11001, \h11001>>, <<\h11038, \h11046>>,
            <<\h11070, \h11070>>, <<\h11073, \h11074>>, <<\h1107F, \h11081>>,
            <<\h110B3, \h110B6>>, <<\h110B9, \h110BA>>, <<\h110BD, \h110BD>>,
            <<\h110C2, \h110C2>>, <<\h110CD, \h110CD>>, <<\h11100, \h11102>>,
            <<\h11127, \h1112B>>, <<\h1112D, \h11134>>, <<\h11173, \h11173>>,
            <<\h11180, \h11181>>, <<\h111B6, \h111BE>>, <<\h111C9, \h111CC>>,
            <<\h111CF, \h111CF>>, <<\h1122F, \h11231>>, <<\h11234, \h11234>>,
            <<\h11236, \h11237>>, <<\h1123E, \h1123E>>, <<\h112DF, \h112DF>>,
            <<\h112E3, \h112EA>>, <<\h11300, \h11301>>, <<\h1133B, \h1133C>>,
            <<\h11340, \h11340>>, <<\h11366, \h1136C>>, <<\h11370, \h11374>>,
            <<\h11438, \h1143F>>, <<\h11442, \h11444>>, <<\h11446, \h11446>>,
            <<\h1145E, \h1145E>>, <<\h114B3, \h114B8>>, <<\h114BA, \h114BA>>,
            <<\h114BF, \h114C0>>, <<\h114C2, \h114C3>>, <<\h115B2, \h115B5>>,
            <<\h115BC, \h115BD>>, <<\h115BF, \h115C0>>, <<\h115DC, \h115DD>>,
            <<\h11633, \h1163A>>, <<\h1163D, \h1163D>>, <<\h1163F, \h11640>>,
            <<\h116AB, \h116AB>>, <<\h116AD, \h116AD>>, <<\h116B0, \h116B5>>,
            <<\h116B7, \h116B7>>, <<\h1171D, \h1171D>>, <<\h1171E, \h1171E>>,
            <<\h1171F, \h1171F>>, <<\h11722, \h11725>>, <<\h11727, \h1172B>>,
            <<\h1182F, \h11837>>, <<\h11839, \h1183A>>, <<\h1193B, \h1193C>>,
            <<\h1193E, \h1193E>>, <<\h11943, \h11943>>, <<\h119D4, \h119D7>>,
            <<\h119DA, \h119DB>>, <<\h119E0, \h119E0>>, <<\h11A01, \h11A0A>>,
            <<\h11A33, \h11A38>>, <<\h11A3B, \h11A3E>>, <<\h11A47, \h11A47>>,
            <<\h11A51, \h11A56>>, <<\h11A59, \h11A5B>>, <<\h11A8A, \h11A96>>,
            <<\h11A98, \h11A99>>, <<\h11C30, \h11C36>>, <<\h11C38, \h11C3D>>,
            <<\h11C3F, \h11C3F>>, <<\h11C92, \h11CA7>>, <<\h11CAA, \h11CB0>>,
            <<\h11CB2, \h11CB3>>, <<\h11CB5, \h11CB6>>, <<\h11D31, \h11D36>>,
            <<\h11D3A, \h11D3A>>, <<\h11D3C, \h11D3D>>, <<\h11D3F, \h11D45>>,
            <<\h11D47, \h11D47>>, <<\h11D90, \h11D91>>, <<\h11D95, \h11D95>>,
            <<\h11D97, \h11D97>>, <<\h11EF3, \h11EF4>>, <<\h13430, \h13438>>,
            <<\h16AF0, \h16AF4>>, <<\h16B30, \h16B36>>, <<\h16B40, \h16B43>>,
            <<\h16F4F, \h16F4F>>, <<\h16F8F, \h16F9F>>, <<\h16FE0, \h16FE1>>,
            <<\h16FE3, \h16FE4>>, <<\h1AFF0, \h1AFF3>>, <<\h1AFF5, \h1AFFB>>,
            <<\h1AFFD, \h1AFFE>>, <<\h1BC9D, \h1BC9E>>, <<\h1BCA0, \h1BCA3>>,
            <<\h1CF00, \h1CF2D>>, <<\h1CF30, \h1CF46>>, <<\h1D167, \h1D169>>,
            <<\h1D173, \h1D182>>, <<\h1D185, \h1D18B>>, <<\h1D1AA, \h1D1AD>>,
            <<\h1D242, \h1D244>>, <<\h1DA00, \h1DA36>>, <<\h1DA3B, \h1DA6C>>,
            <<\h1DA75, \h1DA75>>, <<\h1DA84, \h1DA84>>, <<\h1DA9B, \h1DA9F>>,
            <<\h1DAA1, \h1DAAF>>, <<\h1E000, \h1E006>>, <<\h1E008, \h1E018>>,
            <<\h1E01B, \h1E021>>, <<\h1E023, \h1E024>>, <<\h1E026, \h1E02A>>,
            <<\h1E130, \h1E13D>>, <<\h1E2AE, \h1E2AE>>, <<\h1E2EC, \h1E2EF>>,
            <<\h1E8D0, \h1E8D6>>, <<\h1E944, \h1E94B>>, <<\h1F3FB, \h1F3FF>>,
            <<\hE0001, \hE0001>>, <<\hE0020, \hE007F>>, <<\hE0100, \hE01EF>>}
             \* Case_Ignorable since Unicode 15
             \cup (IF v >= 15 THEN {
            <<\h0ECE, \h0ECE>>, <<\h10EFD, \h10EFF>>, <<\h11241, \h11241>>, <<\h11F00, \h11F01>>,
            <<\h11F36, \h11F3A>>, <<\h11F40, \h11F40>>, <<\h11F42, \h11F42>>,
            <<\h13439, \h13440>>, <<\h13447, \h13455>>, <<\h1E030, \h1E06D>>,
            <<\h1E08F, \h1E08F>>, <<\h1E4EB, \h1E4EF>>} ELSE {})
             \* Case_Ignorable since Unicode 16
             \cup (IF v >= 16 THEN {
            <<\h0897, \h0897>>, <<\h10D4E, \h10D4E>>, <<\h10D69, \h10D6D>>, <<\h10D6F, \h10D6F>>,
            <<\h10EFC, \h10EFC>>, <<\h113BB, \h113C0>>, <<\h113CE, \h113CE>>,
            <<\h113D0, \h113D0>>, <<\h113D2, \h113D2>>, <<\h113E1, \h113E2>>,
            <<\h11F5A, \h11F5A>>, <<\h1611E, \h16129>>, <<\h1612D, \h1612F>>,
            <<\h16D40, \h16D42>>, <<\h16D6B, \h16D6C>>, <<\h1E5EE, \h1E5EF>>} ELSE {})
             \* Case_Ignorable since Unicode 17
             \cup (IF v >= 17 THEN {
            <<\h1ACF, \h1ADD>>, <<\h1AE0, \h1AEB>>, <<\hA7F1, \hA7F1>>, <<\h10EC5, \h10EC5>>,
            <<\h10EFA, \h10EFB>>, <<\h11B60, \h11B60>>, <<\h11B62, \h11B64>>,
            <<\h11B66, \h11B66>>, <<\h11DD9, \h11DD9>>, <<\h16FF2, \h16FF3>>,
            <<\h1E6E3, \h1E6E3>>, <<\h1E6E6, \h1E6E6>>, <<\h1E6EE, \h1E6EF>>,
            <<\h1E6F5, \h1E6F5>>, <<\h1E6FF, \h1E6FF>>} ELSE {}))
            \* U+1171E is a spacing mark since Unicode 16
            \ (IF v >= 16 THEN {<<\h1171E, \h1171E>>} ELSE {})}]

\* The code points with the property Cased and without Case_Ignorable in each version,
\* from ranges <<first, last>> of code points.
CasedLetters ==
    [v \in UnicodeVersions |->
        UNION {{CodePoint(n) : n \in r[1]..r[2]} : r \in
            ({
            <<\h0041, \h005A>>, <<\h0061, \h007A>>, <<\h00AA, \h00AA>>, <<\h00B5, \h00B5>>,
            <<\h00BA, \h00BA>>, <<\h00C0, \h00D6>>, <<\h00D8, \h00F6>>, <<\h00F8, \h01BA>>,
            <<\h01BC, \h01BF>>, <<\h01C4, \h0293>>, <<\h0295, \h0295>>, <<\h0296, \h02AF>>,
            <<\h0370, \h0373>>, <<\h0376, \h0377>>, <<\h037B, \h037D>>, <<\h037F, \h037F>>,
            <<\h0386, \h0386>>, <<\h0388, \h038A>>, <<\h038C, \h038C>>, <<\h038E, \h03A1>>,
            <<\h03A3, \h03F5>>, <<\h03F7, \h0481>>, <<\h048A, \h052F>>, <<\h0531, \h0556>>,
            <<\h0560, \h0588>>, <<\h10A0, \h10C5>>, <<\h10C7, \h10C7>>, <<\h10CD, \h10CD>>,
            <<\h10D0, \h10FA>>, <<\h10FD, \h10FF>>, <<\h13A0, \h13F5>>, <<\h13F8, \h13FD>>,
            <<\h1C80, \h1C88>>, <<\h1C90, \h1CBA>>, <<\h1CBD, \h1CBF>>, <<\h1D00, \h1D2B>>,
            <<\h1D6B, \h1D77>>, <<\h1D79, \h1D9A>>, <<\h1E00, \h1F15>>, <<\h1F18, \h1F1D>>,
            <<\h1F20, \h1F45>>, <<\h1F48, \h1F4D>>, <<\h1F50, \h1F57>>, <<\h1F59, \h1F59>>,
            <<\h1F5B, \h1F5B>>, <<\h1F5D, \h1F5D>>, <<\h1F5F, \h1F7D>>, <<\h1F80, \h1FB4>>,
            <<\h1FB6, \h1FBC>>, <<\h1FBE, \h1FBE>>, <<\h1FC2, \h1FC4>>, <<\h1FC6, \h1FCC>>,
            <<\h1FD0, \h1FD3>>, <<\h1FD6, \h1FDB>>, <<\h1FE0, \h1FEC>>, <<\h1FF2, \h1FF4>>,
            <<\h1FF6, \h1FFC>>, <<\h2102, \h2102>>, <<\h2107, \h2107>>, <<\h210A, \h2113>>,
            <<\h2115, \h2115>>, <<\h2119, \h211D>>, <<\h2124, \h2124>>, <<\h2126, \h2126>>,
            <<\h2128, \h2128>>, <<\h212A, \h212D>>, <<\h212F, \h2134>>, <<\h2139, \h2139>>,
            <<\h213C, \h213F>>, <<\h2145, \h2149>>, <<\h214E, \h214E>>, <<\h2160, \h217F>>,
            <<\h2183, \h2184>>, <<\h24B6, \h24E9>>, <<\h2C00, \h2C7B>>, <<\h2C7E, \h2CE4>>,
            <<\h2CEB, \h2CEE>>, <<\h2CF2, \h2CF3>>, <<\h2D00, \h2D25>>, <<\h2D27, \h2D27>>,
            <<\h2D2D, \h2D2D>>, <<\hA640, \hA66D>>, <<\hA680, \hA69B>>, <<\hA722, \hA76F>>,
            <<\hA771, \hA787>>, <<\hA78B, \hA78E>>, <<\hA790, \hA7CA>>, <<\hA7D0, \hA7D1>>,
            <<\hA7D3, \hA7D3>>, <<\hA7D5, \hA7D9>>, <<\hA7F5, \hA7F6>>, <<\hA7FA, \hA7FA>>,
            <<\hAB30, \hAB5A>>, <<\hAB60, \hAB68>>, <<\hAB70, \hABBF>>, <<\hFB00, \hFB06>>,
            <<\hFB13, \hFB17>>, <<\hFF21, \hFF3A>>, <<\hFF41, \hFF5A>>, <<\h10400, \h1044F>>,
            <<\h104B0, \h104D3>>, <<\h104D8, \h104FB>>, <<\h10570, \h1057A>>,
            <<\h1057C, \h1058A>>, <<\h1058C, \h10592>>, <<\h10594, \h10595>>,
            <<\h10597, \h105A1>>, <<\h105A3, \h105B1>>, <<\h105B3, \h105B9>>,
            <<\h105BB, \h105BC>>, <<\h10C80, \h10CB2>>, <<\h10CC0, \h10CF2>>,
            <<\h118A0, \h118DF>>, <<\h16E40, \h16E7F>>, <<\h1D400, \h1D454>>,
            <<\h1D456, \h1D49C>>, <<\h1D49E, \h1D49F>>, <<\h1D4A2, \h1D4A2>>,
            <<\h1D4A5, \h1D4A6>>, <<\h1D4A9, \h1D4AC>>, <<\h1D4AE, \h1D4B9>>,
            <<\h1D4BB, \h1D4BB>>, <<\h1D4BD, \h1D4C3>>, <<\h1D4C5, \h1D505>>,
            <<\h1D507, \h1D50A>>, <<\h1D50D, \h1D514>>, <<\h1D516, \h1D51C>>,
            <<\h1D51E, \h1D539>>, <<\h1D53B, \h1D53E>>, <<\h1D540, \h1D544>>,
            <<\h1D546, \h1D546>>, <<\h1D54A, \h1D550>>, <<\h1D552, \h1D6A5>>,
            <<\h1D6A8, \h1D6C0>>, <<\h1D6C2, \h1D6DA>>, <<\h1D6DC, \h1D6FA>>,
            <<\h1D6FC, \h1D714>>, <<\h1D716, \h1D734>>, <<\h1D736, \h1D74E>>,
            <<\h1D750, \h1D76E>>, <<\h1D770, \h1D788>>, <<\h1D78A, \h1D7A8>>,
            <<\h1D7AA, \h1D7C2>>, <<\h1D7C4, \h1D7CB>>, <<\h1DF00, \h1DF09>>,
            <<\h1DF0B, \h1DF1E>>, <<\h1E900, \h1E943>>, <<\h1F130, \h1F149>>,
            <<\h1F150, \h1F169>>, <<\h1F170, \h1F189>>}
             \* Cased since Unicode 15
             \cup (IF v >= 15 THEN {
            <<\h1DF25, \h1DF2A>>} ELSE {})
             \* Cased since Unicode 16
             \cup (IF v >= 16 THEN {
            <<\h1C89, \h1C8A>>, <<\hA7CB, \hA7CD>>, <<\hA7DA, \hA7DC>>, <<\h10D50, \h10D65>>,
            <<\h10D70, \h10D85>>} ELSE {})
             \* Cased since Unicode 17
             \cup (IF v >= 17 THEN {
            <<\hA7CE, \hA7CF>>, <<\hA7D2, \hA7D2>>, <<\hA7D4, \hA7D4>>, <<\h16EA0, \h16EB8>>,
            <<\h16EBB, \h16ED3>>} ELSE {}))
            \* U+0295 is a letter without case since Unicode 17
            \ (IF v >= 17 THEN {<<\h0295, \h0295>>} ELSE {})}]

\* s.toLowerCase(), with the tables of the runtime's Unicode version.
ToLowerCase(s) ==
    LET lowerCaseOf == LowerCaseOf[unicodeVersion]
        caseIgnorable == CaseIgnorable[unicodeVersion]
        casedLetters == CasedLetters[unicodeVersion]
        \* The code points of a string: a high surrogate followed by a low one is one
        \* code point of two code units, every other code unit is one by itself.
        RECURSIVE CodePoints(_)
        CodePoints(u) ==
            IF u = <<>> THEN <<>>
            ELSE IF Len(u) >= 2 /\ u[1] \in HighSurrogates /\ u[2] \in LowSurrogates
                 THEN <<SubSeq(u, 1, 2)>> \o CodePoints(SubSeq(u, 3, Len(u)))
                 ELSE <<SubSeq(u, 1, 1)>> \o CodePoints(Tail(u))
        p == CodePoints(s)
        \* The capital sigma at position k is a final one when a cased letter
        \* precedes it and none follows it, case-ignorable code points apart.
        FinalSigma(k) ==
            /\ \E j \in 1..(k - 1) :
                  /\ p[j] \in casedLetters
                  /\ \A m \in (j + 1)..(k - 1) : p[m] \in caseIgnorable
            /\ ~\E j \in (k + 1)..Len(p) :
                  /\ p[j] \in casedLetters
                  /\ \A m \in (k + 1)..(j - 1) : p[m] \in caseIgnorable
        RECURSIVE Lowered(_)
        Lowered(k) ==
            IF k > Len(p) THEN <<>>
            ELSE (IF p[k] = <<"U+03A3">>
                  THEN (IF FinalSigma(k) THEN <<"U+03C2">> ELSE <<"U+03C3">>)
                  ELSE IF p[k] \in DOMAIN lowerCaseOf THEN lowerCaseOf[p[k]]
                  ELSE p[k]) \o Lowered(k + 1)
    IN  Lowered(1)

\* String.prototype.split on a one-character separator.
RECURSIVE Split(_, _)
Split(s, separator) ==
    IF ~Includes(s, separator) THEN <<s>>
    ELSE LET at == CHOOSE k \in 1..Len(s) :
                        s[k] = separator /\ \A j \in 1..(k - 1) : s[j] # separator
         IN  <<SubSeq(s, 1, at - 1)>> \o Split(SubSeq(s, at + 1, Len(s)), separator)

\* Array.prototype.includes
ArrayIncludes(array, x) == \E k \in 1..Len(array) : array[k] = x

\* String(x): a string is itself, a number its decimal digits, an array its elements
\* joined by commas (null and undefined ones as the empty string), an Error its name
\* and message (the name alone when the message is empty), any other object
\* '[object Object]'.
RECURSIVE JsString(_)
JsString(x) ==
    LET RECURSIVE Join(_)
        Join(k) ==
            IF k > Len(x.v) THEN <<>>
            ELSE (IF k > 1 THEN <<",">> ELSE <<>>)
                     \o (IF x.v[k].t \in {"null", "undefined"} THEN <<>>
                         ELSE JsString(x.v[k]))
                     \o Join(k + 1)
    IN
    IF x.t = "string" THEN x.v
    ELSE IF x.t = "boolean" THEN (IF x.v THEN <<"t","r","u","e">> ELSE <<"f","a","l","s","e">>)
    ELSE IF x.t = "number" THEN NumToStr(x.v)
    ELSE IF x.t = "null" THEN <<"n","u","l","l">>
    ELSE IF x.t = "undefined" THEN <<"u","n","d","e","f","i","n","e","d">>
    ELSE IF x.t = "array" THEN Join(1)
    ELSE IF x.t = "error"
         THEN <<"E","r","r","o","r">> \o (IF x.v = <<>> THEN <<>> ELSE <<":"," ">> \o x.v)
    ELSE <<"[","o","b","j","e","c","t"," ","O","b","j","e","c","t","]">>

\* raw.split(',').map(email => email.trim().toLowerCase()).filter(Boolean)
ParseEmailList(raw) ==
    LET parts == Split(raw, ",")
        mapped == [k \in 1..Len(parts) |-> ToLowerCase(Trim(parts[k]))]
        NonEmpty(email) == email # <<>>
    IN  SelectSeq(mapped, NonEmpty)

\* AuthService.parseAdminWhitelist(), env being process.env.ADMIN_EMAIL_WHITELIST.
parseAdminWhitelist(env) ==
    LET \* part_001:21: 'jonathan.wang@sainstore.com,issac.yu@sainstore.com'
        AuthDefaultWhitelist == <<"j","o","n","a","t","h","a","n",".","w","a","n","g","@","s",
            "a","i","n","s","t","o","r","e",".","c","o","m",",","i","s","s","a","c",".","y","u",
            "@","s","a","i","n","s","t","o","r","e",".","c","o","m">>
    IN
    ParseEmailList(OrElse(env, Str(AuthDefaultWhitelist)).v)

\* AuthService.normalizeEmail(email)
normalizeEmail(email) ==
    IF ~Truthy(email) \/ email.t # "string" THEN <<>>
    ELSE ToLowerCase(Trim(email.v))

\* AuthService.isAdmin(email), whitelist being this.adminWhitelist.
isAdmin(whitelist, email) ==
    LET normalizedEmail == normalizeEmail(email)
    IN  ArrayIncludes(whitelist, normalizedEmail)

\* A faulty variant of hasAdminPermission: the flag is enough.
hasAdminPermissionFlagOnly(whitelist, params) ==
    ArrayIncludes(AdminFlagValues,
                  ToLowerCase(JsString(OrElse(params.admin, Str(<<>>)))))

\* AuthService.hasAdminPermission({ email, admin })
hasAdminPermission(whitelist, params) ==
    LET normalizedEmail == normalizeEmail(params.email)
        adminFlag == ArrayIncludes(AdminFlagValues,
                                   ToLowerCase(JsString(OrElse(params.admin, Str(<<>>)))))
    IN  adminFlag /\ isAdmin(whitelist, Str(normalizedEmail))

\* A faulty variant of verifyDraftOrderOwnership: an order without an email
\* is not told apart.
verifyDraftOrderOwnershipAllowsEmpty(requesterEmail, orderEmail, asAdmin) ==
    LET \* 'forbidden'
        ForbiddenCode == <<"f","o","r","b","i","d","d","e","n">>
        \* '仅允许访问本人未支付的询价单'
        OwnershipMsg == <<"U+4EC5","U+5141","U+8BB8","U+8BBF","U+95EE","U+672C","U+4EBA",
            "U+672A","U+652F","U+4ED8","U+7684","U+8BE2","U+4EF7","U+5355">>
    IN
    IF asAdmin THEN [authorized |-> TRUE]
    ELSE IF normalizeEmail(orderEmail) # normalizeEmail(requesterEmail)
    THEN [message |-> OwnershipMsg, error |-> ForbiddenCode, authorized |-> FALSE]
    ELSE [authorized |-> TRUE]

\* AuthService.verifyDraftOrderOwnership(requesterEmail, orderEmail, isAdmin = false)
verifyDraftOrderOwnership(requesterEmail, orderEmail, asAdmin) ==
    LET \* part_001:127: 'forbidden'
        ForbiddenCode == <<"f","o","r","b","i","d","d","e","n">>
        \* part_001:128: '仅允许访问本人未支付的询价单'
        OwnershipMsg == <<"U+4EC5","U+5141","U+8BB8","U+8BBF","U+95EE","U+672C","U+4EBA",
            "U+672A","U+652F","U+4ED8","U+7684","U+8BE2","U+4EF7","U+5355">>
    IN
    IF asAdmin THEN [authorized |-> TRUE]
    ELSE
    LET normalizedRequester == normalizeEmail(requesterEmail)
        normalizedOrder == normalizeEmail(orderEmail)
    IN  IF normalizedOrder = <<>> \/ normalizedOrder # normalizedRequester
        THEN [message |-> OwnershipMsg, error |-> ForbiddenCode, authorized |-> FALSE]
        ELSE [authorized |-> TRUE]

\* req.body?.key || req.query?.key || ''
RequestParameter(request, key) ==
    LET OfPart(part) == IF Truthy(part) THEN part.v[key] ELSE Null
    IN  OrElse(OrElse(OfPart(request.body), OfPart(request.query)), Str(<<>>))

\* AuthService.extractAuthFromRequest(req)
extractAuthFromRequest(whitelist, request) ==
    LET email == RequestParameter(request, "email")
        admin == RequestParameter(request, "admin")
        normalizedEmail == normalizeEmail(email)
    IN  [email |-> normalizedEmail,
         isAdmin |-> hasAdminPermission(whitelist, [email |-> Str(normalizedEmail),
                                                    admin |-> admin])]

\* const DEFAULT_ADMIN_EMAILS
DEFAULT_ADMIN_EMAILS ==
    LET \* part_002:19: 'jonathan.wang@sainstore.com'
        AdminJonathan == <<"j","o","n","a","t","h","a","n",".","w","a","n","g","@","s","a","i",
            "n","s","t","o","r","e",".","c","o","m">>
        \* part_002:20: 'jonthan.wang@gmail.com'
        AdminJonthan == <<"j","o","n","t","h","a","n",".","w","a","n","g","@","g","m","a","i",
            "l",".","c","o","m">>
        \* part_002:21: 'issac.yu@sainstore.com'
        AdminIssac == <<"i","s","s","a","c",".","y","u","@","s","a","i","n","s","t","o","r","e",
            ".","c","o","m">>
        \* part_002:22: 'kitto.chen@sainstore.com'
        AdminKitto == <<"k","i","t","t","o",".","c","h","e","n","@","s","a","i","n","s","t","o",
            "r","e",".","c","o","m">>
        \* part_002:23: 'cherry@sain3.com'
        AdminCherry == <<"c","h","e","r","r","y","@","s","a","i","n","3",".","c","o","m">>
        \* part_002:24: 'keihen.luo@sain3.com'
        AdminKeihen == <<"k","e","i","h","e","n",".","l","u","o","@","s","a","i","n","3",".",
            "c","o","m">>
        \* part_002:25: 'nancy.lin@sainstore.com'
        AdminNancy == <<"n","a","n","c","y",".","l","i","n","@","s","a","i","n","s","t","o","r",
            "e",".","c","o","m">>
    IN
    <<AdminJonathan, AdminJonthan, AdminIssac, AdminKitto, AdminCherry, AdminKeihen,
      AdminNancy>>

\* getAdminEmails(), env being process.env.ADMIN_EMAIL_WHITELIST.
getAdminEmails(env) ==
    IF Truthy(env) THEN ParseEmailList(env.v)
    ELSE [k \in 1..Len(DEFAULT_ADMIN_EMAILS) |-> ToLowerCase(DEFAULT_ADMIN_EMAILS[k])]

\* isAdminEmail(email)
isAdminEmail(env, email) ==
    IF ~Truthy(email) THEN FALSE
    ELSE ArrayIncludes(getAdminEmails(env), ToLowerCase(Trim(email.v)))

\* The emails, flags and requests the utilities are called with, and the
\* values of ADMIN_EMAIL_WHITELIST.
EmailPool ==
    LET \* an email that is on no list
        EmailOther == <<"x","@","y",".","z">>
    IN
    {Null, Str(<<>>), Str(<<" "," ">>), Str(DEFAULT_ADMIN_EMAILS[1]),
     Str(DEFAULT_ADMIN_EMAILS[5]), Str(EmailOther),
     Str(<<" ","C","h","e","r","r","y","@","S","A","I","N","3",".","c","o","m","\t">>),
     Str(<<"X","@","y",".","Z"," ">>), Str(<<"U+FEFF","U+00C9","@","y",".","Z","U+3000">>),
     \* what U+1C89 U+0295 U+0ECE U+03A3 '@y.z' is in lower case with Unicode 15 alone:
     \* U+0ECE is case-ignorable since 15, U+1C89 a capital letter since 16, and U+0295
     \* a cased letter up to 16
     Str(<<"U+1C89","U+0295","U+0ECE","U+03C2","@","y",".","z">>)}

(***************************************************************************)
(* utils/error-handler.js                                                  *)
(***************************************************************************)
\* error-handler.js:72: 'unknown_error'
CodeUnknownError == <<"u","n","k","n","o","w","n","_","e","r","r","o","r">>
\* error-handler.js:73: '操作失败'
DefaultErrorMessage == <<"U+64CD","U+4F5C","U+5931","U+8D25">>

\* new Error(message)
Err(message) == [t |-> "error", v |-> message]

\* String.prototype.includes(part)
StringIncludes(s, part) ==
    \E k \in 0..(Len(s) - Len(part)) : SubSeq(s, k + 1, k + Len(part)) = part

\* createErrorResponse({ status = 500, error, message, details }); timestamp
\* is what new Date().toISOString() gives. The default of status stands in
\* for undefined only, and details is left out when it is undefined only:
\* a null given for either is kept.
createErrorResponse(options, timestamp) ==
    LET response == [message |-> OrElse(options.message, Str(DefaultErrorMessage)).v,
                     error |-> OrElse(options.error, Str(CodeUnknownError)).v,
                     timestamp |-> timestamp,
                     success |-> FALSE]
    IN  [status |-> IF options.status = Undefined THEN Num(500) ELSE options.status,
         body |-> IF options.details # Undefined
                  THEN [message |-> response.message, error |-> response.error,
                        timestamp |-> response.timestamp, success |-> response.success,
                        details |-> options.details]
                  ELSE response]

\* The if/else chain of handleError over error.message.
ClassifyMessage(message, defaultStatus) ==
    LET \* error-handler.js:79: '配置缺失'
        PatConfigMissing == <<"U+914D","U+7F6E","U+7F3A","U+5931">>
        \* error-handler.js:79: 'Missing'
        PatMissing == <<"M","i","s","s","i","n","g">>
        \* error-handler.js:82: 'GraphQL'
        PatGraphQL == <<"G","r","a","p","h","Q","L">>
        \* error-handler.js:82: 'API'
        PatAPI == <<"A","P","I">>
        \* error-handler.js:85: 'forbidden'
        PatForbidden == <<"f","o","r","b","i","d","d","e","n">>
        \* error-handler.js:85: '无权'
        PatNoPermission == <<"U+65E0","U+6743">>
        \* error-handler.js:88: '未找到'
        PatNotFound == <<"U+672A","U+627E","U+5230">>
        \* error-handler.js:88: '不存在'
        PatNotExists == <<"U+4E0D","U+5B58","U+5728">>
        \* error-handler.js:91: '缺少'
        PatLacking == <<"U+7F3A","U+5C11">>
        \* error-handler.js:81: 'configuration_error'
        CodeConfigurationError == <<"c","o","n","f","i","g","u","r","a","t","i","o","n","_","e",
            "r","r","o","r">>
        \* error-handler.js:84: 'shopify_api_error'
        CodeShopifyApiError == <<"s","h","o","p","i","f","y","_","a","p","i","_","e","r","r",
            "o","r">>
        \* error-handler.js:87: 'forbidden'
        CodeForbidden == <<"f","o","r","b","i","d","d","e","n">>
        \* error-handler.js:90: 'not_found'
        CodeNotFound == <<"n","o","t","_","f","o","u","n","d">>
        \* error-handler.js:93: 'missing_parameter'
        CodeMissingParameter == <<"m","i","s","s","i","n","g","_","p","a","r","a","m","e","t",
            "e","r">>
    IN
    IF StringIncludes(message, PatConfigMissing) \/ StringIncludes(message, PatMissing)
    THEN [status |-> Num(500), errorCode |-> CodeConfigurationError]
    ELSE IF StringIncludes(message, PatGraphQL) \/ StringIncludes(message, PatAPI)
    THEN [status |-> Num(502), errorCode |-> CodeShopifyApiError]
    ELSE IF StringIncludes(message, PatForbidden) \/ StringIncludes(message, PatNoPermission)
    THEN [status |-> Num(403), errorCode |-> CodeForbidden]
    ELSE IF StringIncludes(message, PatNotFound) \/ StringIncludes(message, PatNotExists)
    THEN [status |-> Num(404), errorCode |-> CodeNotFound]
    ELSE IF StringIncludes(message, PatLacking) \/ StringIncludes(message, PatMissing)
    THEN [status |-> Num(400), errorCode |-> CodeMissingParameter]
    ELSE [status |-> defaultStatus, errorCode |-> CodeUnknownError]

\* handleError(error, res, options): hasRes tells whether res was given, and
\* sent whether the response went out on it (else it is returned). The
\* default of defaultStatus stands in for undefined only.
handleError(error, hasRes, options, timestamp) ==
    LET defaultStatus == IF options.defaultStatus = Undefined THEN Num(500)
                         ELSE options.defaultStatus
        found ==
            IF error.t = "error"
            THEN LET class == ClassifyMessage(error.v, defaultStatus)
                 IN  [status |-> class.status, errorCode |-> class.errorCode,
                      errorMessage |-> error.v]
            ELSE IF error.t = "string"
            THEN [status |-> defaultStatus, errorCode |-> CodeUnknownError,
                  errorMessage |-> error.v]
            ELSE IF error.t = "object"
            THEN [status |-> OrElse(error.v.status, defaultStatus),
                  errorCode |-> OrElse(error.v.error, Str(CodeUnknownError)).v,
                  errorMessage |-> OrElse(error.v.message, Str(DefaultErrorMessage)).v]
            ELSE [status |-> defaultStatus, errorCode |-> CodeUnknownError,
                  errorMessage |-> DefaultErrorMessage]
        errorResponse == createErrorResponse([message |-> Str(found.errorMessage),
                                              status |-> found.status,
                                              error |-> Str(found.errorCode),
                                              details |-> Undefined], timestamp)
    IN  [status |-> errorResponse.status, body |-> errorResponse.body, sent |-> hasRes]

TimestampPool == {<<"T","0">>, <<"T","1">>}

(***************************************************************************)
(* utils/shopify-client.js                                                 *)
(***************************************************************************)

\* constructor(): env holds the four variables of process.env it reads.
ShopifyClientNew(env) ==
    LET \* shopify-client.js:14: '2024-01'
        ApiVersion == <<"2","0","2","4","-","0","1">>
        \* shopify-client.js:16: 'https://'
        EndpointScheme == <<"h","t","t","p","s",":","/","/">>
        \* shopify-client.js:16: '/admin/api/'
        EndpointApiPath == <<"/","a","d","m","i","n","/","a","p","i","/">>
        \* shopify-client.js:16: '/graphql.json'
        EndpointGraphqlPath == <<"/","g","r","a","p","h","q","l",".","j","s","o","n">>
    IN
    LET storeDomain == OrElse(env.SHOPIFY_STORE_DOMAIN, env.SHOP)
        accessToken == OrElse(env.SHOPIFY_ACCESS_TOKEN, env.ADMIN_TOKEN)
    IN  [storeDomain |-> storeDomain,
         accessToken |-> accessToken,
         endpoint |-> IF Truthy(storeDomain)
                      THEN Str(EndpointScheme \o storeDomain.v \o EndpointApiPath
                               \o ApiVersion \o EndpointGraphqlPath)
                      ELSE Null]

\* isConfigured()
isConfigured(this) == Truthy(this.storeDomain) /\ Truthy(this.accessToken)

\* How query ends: with the json returned, or with the Error thrown.
QueryReturned(json) == [value |-> json, pc |-> "returned"]
QueryThrown(message) == [value |-> Err(message), pc |-> "thrown"]

\* catch (error) of query: the error is thrown again, enhanced unless its
\* message names Shopify or GraphQL.
QueryCatch(message) ==
    LET \* shopify-client.js:94: 'Shopify API 调用失败: '
        ApiCallFailedText == <<"S","h","o","p","i","f","y"," ","A","P","I"," ","U+8C03",
            "U+7528","U+5931","U+8D25",":"," ">>
        \* shopify-client.js:91: 'Shopify'
        KeepShopify == <<"S","h","o","p","i","f","y">>
        \* shopify-client.js:91: 'GraphQL'
        KeepGraphQL == <<"G","r","a","p","h","Q","L">>
    IN
    IF StringIncludes(message, KeepShopify) \/ StringIncludes(message, KeepGraphQL)
    THEN QueryThrown(message)
    ELSE QueryThrown(ApiCallFailedText \o message)

\* query, from the settling of fetch to response.json().
QueryAfterFetch(result) ==
    LET \* shopify-client.js:64: 'Shopify API 请求失败: '
        ApiRequestFailedText == <<"S","h","o","p","i","f","y"," ","A","P","I"," ","U+8BF7",
            "U+6C42","U+5931","U+8D25",":"," ">>
    IN
    IF result.kind = "throw" THEN QueryCatch(result.message)
    ELSE IF ~(result.status \in 200..299)
    THEN QueryCatch(ApiRequestFailedText \o NumToStr(result.status) \o <<" ">>
                    \o result.statusText)
    ELSE [value |-> Null, pc |-> "await_json"]

\* The first field of json.data whose userErrors is not empty, 0 if none.
FirstUserError(data) ==
    LET Failing(k) == /\ Truthy(data[k].value)
                      /\ Truthy(data[k].value.v.userErrors)
                      /\ Len(data[k].value.v.userErrors.v) > 0
    IN  IF \E k \in 1..Len(data) : Failing(k)
        THEN CHOOSE k \in 1..Len(data) : Failing(k) /\ \A j \in 1..(k - 1) : ~Failing(j)
        ELSE 0

\* A faulty variant of QueryAfterJson: userErrors are not looked at.
QueryAfterJsonSkipsUserErrors(body) ==
    LET \* 'GraphQL 错误: '
        GraphQLErrorText == <<"G","r","a","p","h","Q","L"," ","U+9519","U+8BEF",":"," ">>
        \* 'Cannot read properties of null (reading 'errors')'
        NullJsonMsg == <<"C","a","n","n","o","t"," ","r","e","a","d"," ","p","r","o","p","e",
            "r","t","i","e","s"," ","o","f"," ","n","u","l","l"," ","(","r","e","a","d","i","n",
            "g"," ","'","e","r","r","o","r","s","'",")">>
    IN
    IF body.kind = "invalid" THEN QueryCatch(body.message)
    ELSE IF body.json = Null THEN QueryCatch(NullJsonMsg)
    ELSE IF Truthy(body.json.errors) /\ Len(body.json.errors.v) > 0
    THEN QueryCatch(GraphQLErrorText \o body.json.errors.v[1].message)
    ELSE QueryReturned(body.json)

\* query, from the settling of response.json() to its end. For a body that is
\* not JSON, response.json() rejects with a SyntaxError whose message, which
\* can quote the body, goes through the catch like any other.
QueryAfterJson(body) ==
    LET \* shopify-client.js:73: 'GraphQL 错误: '
        GraphQLErrorText == <<"G","r","a","p","h","Q","L"," ","U+9519","U+8BEF",":"," ">>
        \* shopify-client.js:83: '操作失败: '
        OperationFailedText == <<"U+64CD","U+4F5C","U+5931","U+8D25",":"," ">>
        \* shopify-client.js:70 (TypeError of json.errors on null): 'Cannot read properties of
        \*  null (reading 'errors')'
        NullJsonMsg == <<"C","a","n","n","o","t"," ","r","e","a","d"," ","p","r","o","p","e",
            "r","t","i","e","s"," ","o","f"," ","n","u","l","l"," ","(","r","e","a","d","i","n",
            "g"," ","'","e","r","r","o","r","s","'",")">>
    IN
    IF body.kind = "invalid" THEN QueryCatch(body.message)
    ELSE IF body.json = Null THEN QueryCatch(NullJsonMsg)
    ELSE IF Truthy(body.json.errors) /\ Len(body.json.errors.v) > 0
    THEN QueryCatch(GraphQLErrorText \o body.json.errors.v[1].message)
    ELSE IF Truthy(body.json.data) /\ FirstUserError(body.json.data.v) # 0
    THEN LET data == body.json.data.v
             firstUserError == data[FirstUserError(data)].value.v.userErrors.v[1]
         IN  QueryCatch(OperationFailedText \o firstUserError.message)
    ELSE QueryReturned(body.json)

\* The environments, queries and answers of the network the client meets.
MaxQueries == 2

VARIABLES
    envConfigured,  \* process.env holds the store domain and the access token
    req,            \* req.method and req.query of the request
    pc,             \* where the invocation stands: "idle", "start", an await, "done"
    draftOrder,     \* const draftOrder
    files,          \* const files = []
    i,              \* the loop index (0-based, as in the source)
    fileInfo,       \* const fileInfo of the iteration under way
    zip,            \* const zip = new JSZip()
    successCount,   \* let successCount
    failCount,      \* let failCount
    resHeaders,     \* names of the headers set on res
    resSent,        \* the responses sent on res, in order
    calls           \* the calls made to shopGql and fetch, in order

\* The utilities (AuthService, cors-config, error-handler, ShopifyClient).
VARIABLES
    adminEmailEnv,  \* process.env.ADMIN_EMAIL_WHITELIST
    adminWhitelist, \* authService.adminWhitelist
    invocation,     \* the utility function called
    arguments,      \* the arguments it is called with
    client,         \* the ShopifyClient: storeDomain, accessToken, endpoint
    clientPc,       \* where its query stands: "idle", an await, "returned", "thrown"
    requests,       \* the requests the client has sent with fetch, in order
    returned        \* what the call returned or threw

authVars == <<unicodeVersion, adminEmailEnv, adminWhitelist>>
utilityVars == <<unicodeVersion, adminEmailEnv, adminWhitelist, client, clientPc, requests, invocation,
                 arguments, returned>>
handlerVars == <<envConfigured, req, pc, draftOrder, files, i, fileInfo, zip, successCount,
                 failCount, resHeaders, resSent, calls>>

vars == <<envConfigured, req, pc, draftOrder, files, i, fileInfo, zip, successCount,
          failCount, resHeaders, resSent, calls, unicodeVersion, adminEmailEnv,
          adminWhitelist, client, clientPc, requests, invocation, arguments, returned>>

\* The locals of invocation r as one record.
Local(r) ==
    [req |-> req[r], pc |-> pc[r], draftOrder |-> draftOrder[r], files |-> files[r],
     i |-> i[r], fileInfo |-> fileInfo[r], zip |-> zip[r],
     successCount |-> successCount[r], failCount |-> failCount[r],
     resHeaders |-> resHeaders[r], resSent |-> resSent[r], calls |-> calls[r]]

\* A faulty variant of Becomes: the archive under construction is held in one
\* module-level variable that every invocation writes.
BecomesSharingZip(r, s) ==
    /\ req' = [req EXCEPT ![r] = s.req]
    /\ pc' = [pc EXCEPT ![r] = s.pc]
    /\ draftOrder' = [draftOrder EXCEPT ![r] = s.draftOrder]
    /\ files' = [files EXCEPT ![r] = s.files]
    /\ i' = [i EXCEPT ![r] = s.i]
    /\ fileInfo' = [fileInfo EXCEPT ![r] = s.fileInfo]
    /\ zip' = [q \in Requests |-> IF q = r \/ pc[q] \notin {"idle", "start", "done"}
                                   THEN s.zip ELSE zip[q]]
    /\ successCount' = [successCount EXCEPT ![r] = s.successCount]
    /\ failCount' = [failCount EXCEPT ![r] = s.failCount]
    /\ resHeaders' = [resHeaders EXCEPT ![r] = s.resHeaders]
    /\ resSent' = [resSent EXCEPT ![r] = s.resSent]
    /\ calls' = [calls EXCEPT ![r] = s.calls]
    /\ UNCHANGED <<envConfigured, utilityVars>>

\* Invocation r moves to the locals s; nothing of another invocation changes.
Becomes(r, s) ==
    /\ req' = [req EXCEPT ![r] = s.req]
    /\ pc' = [pc EXCEPT ![r] = s.pc]
    /\ draftOrder' = [draftOrder EXCEPT ![r] = s.draftOrder]
    /\ files' = [files EXCEPT ![r] = s.files]
    /\ i' = [i EXCEPT ![r] = s.i]
    /\ fileInfo' = [fileInfo EXCEPT ![r] = s.fileInfo]
    /\ zip' = [zip EXCEPT ![r] = s.zip]
    /\ successCount' = [successCount EXCEPT ![r] = s.successCount]
    /\ failCount' = [failCount EXCEPT ![r] = s.failCount]
    /\ resHeaders' = [resHeaders EXCEPT ![r] = s.resHeaders]
    /\ resSent' = [resSent EXCEPT ![r] = s.resSent]
    /\ calls' = [calls EXCEPT ![r] = s.calls]
    /\ UNCHANGED <<envConfigured, utilityVars>>

\* A slot before its invocation starts.
Fresh(request, at) ==
    [req |-> request, pc |-> at, draftOrder |-> Null, files |-> <<>>, i |-> 0,
     fileInfo |-> Null, zip |-> [files |-> [n \in {} |-> Null], constructed |-> FALSE],
     successCount |-> 0, failCount |-> 0,
     resHeaders |-> {}, resSent |-> <<>>, calls |-> <<>>]

\* The state in which exactly the slots of `live` carry a request.
InitWith(live) ==
    LET RequestPool ==
            {[query |-> [draftOrderId |-> d], method |-> m] :
                m \in {"GET", "OPTIONS", "POST", "DELETE"}, d \in {Null, Str(<<>>), Str(DraftOrderId)}}
        IdleRequest == [query |-> [draftOrderId |-> Null], method |-> "GET"]
    IN
    /\ envConfigured \in BOOLEAN
    /\ \E rq \in [live -> RequestPool] :
        LET s0(r) == IF r \in live THEN Fresh(rq[r], "start")
                     ELSE Fresh(IdleRequest, "idle")
        IN  /\ req = [r \in Requests |-> s0(r).req]
            /\ pc = [r \in Requests |-> s0(r).pc]
            /\ draftOrder = [r \in Requests |-> s0(r).draftOrder]
            /\ files = [r \in Requests |-> s0(r).files]
            /\ i = [r \in Requests |-> s0(r).i]
            /\ fileInfo = [r \in Requests |-> s0(r).fileInfo]
            /\ zip = [r \in Requests |-> s0(r).zip]
            /\ successCount = [r \in Requests |-> s0(r).successCount]
            /\ failCount = [r \in Requests |-> s0(r).failCount]
            /\ resHeaders = [r \in Requests |-> s0(r).resHeaders]
            /\ resSent = [r \in Requests |-> s0(r).resSent]
            /\ calls = [r \in Requests |-> s0(r).calls]

\* No utility has been called; the service is constructed when its module loads.
NoInvocation == "none"
ClientIdle ==
    LET NoShopifyEnv ==
            [SHOPIFY_STORE_DOMAIN |-> Null, SHOP |-> Null, SHOPIFY_ACCESS_TOKEN |-> Null,
             ADMIN_TOKEN |-> Null]
    IN
    /\ client = ShopifyClientNew(NoShopifyEnv)
    /\ clientPc = "idle"
    /\ requests = <<>>

\* The handler and the client lower-case no string: the runtime of the deployment
\* (nodejs18.x, Unicode 15) stands for all of them.
UtilitiesIdle ==
    /\ unicodeVersion = 15
    /\ adminEmailEnv = Null
    /\ adminWhitelist = parseAdminWhitelist(adminEmailEnv)
    /\ ClientIdle
    /\ invocation = NoInvocation
    /\ arguments = <<>>
    /\ returned = Null

Init == InitWith({1}) /\ UtilitiesIdle

(***************************************************************************)
(* The handler, cut at its awaits.  Each operator below maps the locals s  *)
(* of an invocation to its locals at the next await or at its return.      *)
(***************************************************************************)
NoBody == [kind |-> "none"]
JsonBody(json) == [kind |-> "json", json |-> json]

\* res.status(status).end() / .json(body) / .send(body), and the return.
Respond(s, status, body) ==
    [s EXCEPT !.resSent = Append(@, [status |-> status, body |-> body]),
              !.pc = "done"]

\* setCorsHeaders(req, res): the header names it sets.
CorsHeaderNames ==
    {"Access-Control-Allow-Origin", "Vary", "Access-Control-Allow-Methods",
     "Access-Control-Allow-Headers", "Access-Control-Allow-Credentials",
     "Access-Control-Max-Age"}

ArchiveHeaderNames == {"Content-Type", "Content-Disposition", "Content-Length"}

\* part_000:62: const FILE_METAOBJECT_TYPE = 'uploaded_file'
FILE_METAOBJECT_TYPE == <<"u","p","l","o","a","d","e","d","_","f","i","l","e">>
\* part_000:96: first: 100
ListPageSize == 100

\* The calls log notes, with each call, the entry of files it is made for
\* (1-based; 0 before the loop) and what it settled with.
Pending == [kind |-> "pending"]

\* shopGql has the response of its fetch and awaits resp.json().
Received == [kind |-> "received"]
CurrentEntry(s) == IF s.zip.constructed THEN s.i + 1 ELSE 0

\* await shopGql(query, variables): without the configuration no request
\* goes out and the errors object is what comes back.
CallShopGql(s, query, variable, at) ==
    [s EXCEPT !.calls = Append(@, [fn |-> "shopGql", query |-> query,
                                   variable |-> variable, network |-> envConfigured,
                                   entry |-> CurrentEntry(s), result |-> Pending]),
              !.pc = at]

\* await fetch(fileUrl) in downloadFileFromShopify.
CallFetch(s, url) ==
    [s EXCEPT !.calls = Append(@, [fn |-> "fetch", url |-> url,
                                   entry |-> CurrentEntry(s), result |-> Pending]),
              !.pc = "await_fetch"]

\* The call awaited settles with result.
Settle(s, result) == [s EXCEPT !.calls[Len(s.calls)].result = result]

\* shopGql's answer to its caller, given what the network can give: without
\* the configuration the errors object; while fetch is awaited the rejection
\* of fetch; once the response is there what resp.json() gives or rejects with.
ShopGqlAnswers(call, networkResults) ==
    LET \* part_000:28: 'Missing SHOPIFY_STORE_DOMAIN or SHOPIFY_ACCESS_TOKEN'
        MissingConfigMsg == <<"M","i","s","s","i","n","g"," ","S","H","O","P","I","F","Y","_",
            "S","T","O","R","E","_","D","O","M","A","I","N"," ","o","r"," ","S","H","O","P","I",
            "F","Y","_","A","C","C","E","S","S","_","T","O","K","E","N">>
    IN
    IF ~call.network THEN {Json(Arr(<<[message |-> MissingConfigMsg]>>), Null)}
    ELSE IF call.result = Pending THEN {x \in networkResults : x.kind = "throw"}
    ELSE networkResults

\* A faulty variant of CatchAll: the failed order query is issued again.
CatchAllRetries(s, message) ==
    CallShopGql(s, "draftOrder", [id |-> s.req.query.draftOrderId.v], "await_order")

\* The outer catch of the handler.
CatchAll(s, message) ==
    Respond(s, 500, JsonBody([error |-> BatchFailedMsg, details |-> message]))

\* A faulty variant of AfterLoop: the archive is generated whatever the counts are.
AfterLoopAlwaysZips(s) == [s EXCEPT !.pc = "await_zip"]

\* After the loop: the all-failed answer, or zip.generateAsync.
AfterLoop(s) ==
    IF s.successCount = 0
    THEN Respond(s, 500,
                 JsonBody([error |-> AllDownloadsFailedMsg,
                           details |-> SuccessText \o NumToStr(s.successCount)
                                       \o FailText \o NumToStr(s.failCount)]))
    ELSE [s EXCEPT !.pc = "await_zip"]

\* A faulty variant of BeginEntry: the first call of every remaining entry is
\* issued at once (as with Promise.all over files), only the last one awaited.
BeginEntryFanOut(s) ==
    LET FirstCall(k) ==
            IF s.files[k].type = "shopify_url"
            THEN [fn |-> "fetch", url |-> s.files[k].url, entry |-> k, result |-> Pending]
            ELSE [fn |-> "shopGql", query |-> "metaobjectByHandle",
                  variable |-> [handle |-> s.files[k].fileId, type |-> FILE_METAOBJECT_TYPE],
                  network |-> envConfigured,
                  entry |-> k, result |-> Pending]
        issued == [k \in 1..(Len(s.files) - s.i) |-> FirstCall(Len(s.files) + 1 - k)]
    IN  [s EXCEPT !.calls = @ \o issued,
                  !.pc = IF s.files[s.i + 1].type = "shopify_url"
                         THEN "await_fetch" ELSE "await_handle"]

\* The start of iteration i, up to its first await.
BeginEntry(s) ==
    LET file == s.files[s.i + 1]
    IN  IF file.type = "shopify_url"
        THEN CallFetch(s, file.url)
        ELSE CallShopGql(s, "metaobjectByHandle",
                         [handle |-> file.fileId, type |-> FILE_METAOBJECT_TYPE],
                         "await_handle")

\* for (let i = 0; i < files.length; i++)
LoopHead(s) ==
    IF s.i < Len(s.files) THEN BeginEntry(s) ELSE AfterLoop(s)

\* if (fileBuffer) { zip.file(file.fileName, fileBuffer); successCount++ }
\* (a Buffer is an object, so the test passes for every Buffer), then i++.
EntrySucceeded(s, fileBuffer) ==
    LoopHead([s EXCEPT !.zip = ZipFile(@, s.files[s.i + 1].fileName, BufferData(fileBuffer)),
                       !.successCount = @ + 1,
                       !.fileInfo = Null,
                       !.i = @ + 1])

\* A faulty variant of EntryFailed: no try/catch around the iteration, so the error
\* of one file reaches the outer catch.
EntryFailedAborts(s, message) == CatchAll(s, message)

\* catch (error) { failCount++; zip.file(`错误_...txt`, `文件下载失败: ${error.message}`) },
\* then i++.
EntryFailed(s, message) ==
    LoopHead([s EXCEPT !.failCount = @ + 1,
                       !.zip = ZipFile(@, ErrorEntryName(s.files[s.i + 1].fileName),
                                       TextData(ErrorEntryText \o message)),
                       !.fileInfo = Null,
                       !.i = @ + 1])

\* A faulty variant of MissingDraftOrderId: only an absent parameter is rejected.
MissingDraftOrderIdStrict(query) == query.draftOrderId = Null

\* if (!draftOrderId)
MissingDraftOrderId(query) == ~Truthy(query.draftOrderId)

\* A faulty variant of HandlerEntry: the parameter is validated before the method.
HandlerEntryValidatesFirst(s) ==
    LET s1 == [s EXCEPT !.resHeaders = @ \cup CorsHeaderNames]
    IN  IF MissingDraftOrderId(s.req.query)
        THEN Respond(s1, 400, JsonBody([error |-> MissingParamMsg, usage |-> UsageMsg]))
        ELSE IF s.req.method = "OPTIONS"
        THEN Respond(s1, 204, NoBody)
        ELSE IF s.req.method # "GET"
        THEN Respond(s1, 405, JsonBody([error |-> MethodNotAllowedMsg]))
        ELSE CallShopGql(s1, "draftOrder", [id |-> s.req.query.draftOrderId.v],
                         "await_order")

\* Entry of the handler, up to the order query.
HandlerEntry(s) ==
    LET s1 == [s EXCEPT !.resHeaders = @ \cup CorsHeaderNames]
    IN  IF s.req.method = "OPTIONS"
        THEN Respond(s1, 204, NoBody)
        ELSE IF s.req.method # "GET"
        THEN Respond(s1, 405, JsonBody([error |-> MethodNotAllowedMsg]))
        ELSE IF MissingDraftOrderId(s.req.query)
        THEN Respond(s1, 400, JsonBody([error |-> MissingParamMsg, usage |-> UsageMsg]))
        ELSE CallShopGql(s1, "draftOrder", [id |-> s.req.query.draftOrderId.v],
                         "await_order")

\* A faulty variant of NoProcessableFiles: the empty list is not detected.
NoProcessableFilesNever(fileList) == FALSE

\* if (files.length === 0)
NoProcessableFiles(fileList) == Len(fileList) = 0

\* From the order query's answer to the first await of the loop.
AfterOrderQuery(s, result) ==
    LET \* part_000:242: 'ZIP打包功能不可用'
        ZipUnavailableMsg == <<"Z","I","P","U+6253","U+5305","U+529F","U+80FD","U+4E0D",
            "U+53EF","U+7528">>
        \* part_000:243: '请安装jszip依赖: npm install jszip'
        ZipUnavailableDetail == <<"U+8BF7","U+5B89","U+88C5","j","s","z","i","p","U+4F9D",
            "U+8D56",":"," ","n","p","m"," ","i","n","s","t","a","l","l"," ","j","s","z","i",
            "p">>
    IN
    IF result.kind = "throw" THEN CatchAll(s, result.message)
    ELSE
    LET draftOrderResult == result.json
        found == IF Truthy(draftOrderResult.data)
                 THEN draftOrderResult.data.v.draftOrder ELSE Null
    IN  IF Truthy(draftOrderResult.errors) /\ Len(draftOrderResult.errors.v) > 0
        THEN Respond(s, 500, JsonBody([error |-> OrderQueryFailedMsg,
                                       details |-> draftOrderResult.errors.v[1].message]))
        ELSE IF ~Truthy(found)
        THEN Respond(s, 404, JsonBody([error |-> OrderNotFoundMsg]))
        ELSE
        LET s1 == [s EXCEPT !.draftOrder = found,
                            !.files = ExtractFiles(found.v.lineItems.edges)]
            \* if (!JSZip): the import is bound when the module loads.
            JSZipAvailable == TRUE
            \* new JSZip()
            NewZip == [files |-> [n \in {} |-> Null], constructed |-> TRUE]
        IN  IF NoProcessableFiles(s1.files)
            THEN Respond(s1, 404, JsonBody([error |-> NoFilesFoundMsg,
                                            message |-> NoFilesFoundDetail]))
            ELSE IF ~JSZipAvailable
            THEN Respond(s1, 500, JsonBody([error |-> ZipUnavailableMsg,
                                            message |-> ZipUnavailableDetail]))
            ELSE LoopHead([s1 EXCEPT !.zip = NewZip, !.successCount = 0,
                                     !.failCount = 0, !.i = 0])

\* downloadFileFromShopify once fetch has settled: a rejected fetch or a
\* response that is not ok is the error the entry fails with, and an ok
\* response is read by await response.arrayBuffer().
AfterFetch(s, result) ==
    IF result.kind = "throw" THEN EntryFailed(s, result.message)
    ELSE IF ~(result.status \in 200..299)
    THEN EntryFailed(s, DownloadFailedText \o NumToStr(result.status) \o <<" ">>
                        \o result.statusText)
    ELSE [s EXCEPT !.pc = "await_body"]

\* downloadFileFromShopify once response.arrayBuffer() has settled: the
\* Buffer of the bytes read, or the error the read rejected with.
AfterBody(s, body) ==
    IF body.kind = "throw" THEN EntryFailed(s, body.message)
    ELSE EntrySucceeded(s, body.data)

\* const getField = (key) => { fileRecord.fields.find(x => x.key === key) ... }
GetField(fileRecord, key) ==
    LET fields == fileRecord.fields
    IN  IF \E k \in 1..Len(fields) : fields[k].key = key
        THEN fields[CHOOSE k \in 1..Len(fields) :
                        /\ fields[k].key = key
                        /\ \A j \in 1..(k - 1) : fields[j].key # key].value
        ELSE <<>>

\* A faulty variant of RecordFileInfo: the inline payload is preferred to the URL.
RecordFileInfoDataFirst(fileRecord) ==
    LET \* 'download.bin'
        DefaultRecordName == <<"d","o","w","n","l","o","a","d",".","b","i","n">>
    IN
    LET fileUrl == GetField(fileRecord, FieldFileUrl)
        fileData == GetField(fileRecord, FieldFileData)
        fileName == IF GetField(fileRecord, FieldFileName) # <<>>
                    THEN GetField(fileRecord, FieldFileName) ELSE DefaultRecordName
    IN  IF fileData # <<>>
        THEN Obj([data |-> fileData, fileName |-> fileName, type |-> "base64"])
        ELSE IF fileUrl # <<>> /\ (StartsWith(fileUrl, HttpScheme) \/ StartsWith(fileUrl, HttpsScheme))
        THEN Obj([url |-> fileUrl, fileName |-> fileName, type |-> "url"])
        ELSE Null

\* The tail of getFileFromMetaobject: what it returns for the record found.
RecordFileInfo(fileRecord) ==
    LET \* part_000:118: 'download.bin'
        DefaultRecordName == <<"d","o","w","n","l","o","a","d",".","b","i","n">>
    IN
    LET fileUrl == GetField(fileRecord, FieldFileUrl)
        fileData == GetField(fileRecord, FieldFileData)
        fileName == IF GetField(fileRecord, FieldFileName) # <<>>
                    THEN GetField(fileRecord, FieldFileName) ELSE DefaultRecordName
    IN  IF fileUrl # <<>> /\ (StartsWith(fileUrl, HttpScheme) \/ StartsWith(fileUrl, HttpsScheme))
        THEN Obj([url |-> fileUrl, fileName |-> fileName, type |-> "url"])
        ELSE IF fileData # <<>>
        THEN Obj([data |-> fileData, fileName |-> fileName, type |-> "base64"])
        ELSE Null

\* The handler once getFileFromMetaobject has returned info.
WithFileInfo(s, info) ==
    LET \* part_000:278: '未知的文件类型'
        UnknownTypeMsg == <<"U+672A","U+77E5","U+7684","U+6587","U+4EF6","U+7C7B","U+578B">>
    IN
    IF ~Truthy(info) THEN EntryFailed(s, MetaobjectFailedMsg)
    ELSE IF info.v.type = "url"
    THEN CallFetch([s EXCEPT !.fileInfo = info], info.v.url)
    ELSE IF info.v.type = "base64"
    THEN LET base64Data == IF Includes(info.v.data, ",")
                           THEN SplitSecond(info.v.data, ",") ELSE info.v.data
         IN  EntrySucceeded(s, BufferFromBase64(base64Data))
    ELSE EntryFailed(s, UnknownTypeMsg)

\* A faulty variant of HandleRecord: an answer that carries errors is taken as
\* giving no record.
HandleRecordRejectsErrors(result) ==
    IF result.kind = "throw" THEN Null
    ELSE IF Truthy(result.json.errors) /\ Len(result.json.errors.v) > 0 THEN Null
    ELSE IF ~Truthy(result.json.data) THEN Null
    ELSE result.json.data.v.metaobjectByHandle

\* fileRecord = handleResult?.data?.metaobjectByHandle || null, null on a throw.
HandleRecord(result) ==
    IF result.kind = "throw" THEN Null
    ELSE IF ~Truthy(result.json.data) THEN Null
    ELSE result.json.data.v.metaobjectByHandle

\* From the handle query's answer to the next await.
AfterHandleQuery(s, result) ==
    LET fileRecord == HandleRecord(result)
    IN  IF ~Truthy(fileRecord)
        THEN CallShopGql(s, "metaobjects",
                         [type |-> FILE_METAOBJECT_TYPE, first |-> ListPageSize], "await_list")
        ELSE WithFileInfo(s, RecordFileInfo(fileRecord.v))

\* nodes.find(node => the file_id field of node equals fileId) || null
ListRecord(result, fileId) ==
    IF result.kind = "throw" THEN Null
    ELSE
    LET data == result.json.data
        nodes == IF Truthy(data) /\ Truthy(data.v.metaobjects)
                    /\ Truthy(data.v.metaobjects.v.nodes)
                 THEN data.v.metaobjects.v.nodes.v ELSE <<>>
        Matches(node) == \E k \in 1..Len(node.fields) :
                            /\ node.fields[k].key = FieldFileId
                            /\ \A j \in 1..(k - 1) : node.fields[j].key # FieldFileId
                            /\ node.fields[k].value = fileId
    IN  IF \E k \in 1..Len(nodes) : Matches(nodes[k])
        THEN Obj(nodes[CHOOSE k \in 1..Len(nodes) :
                          Matches(nodes[k]) /\ \A j \in 1..(k - 1) : ~Matches(nodes[j])])
        ELSE Null

\* From the list query's answer to the next await.
AfterListQuery(s, result) ==
    LET fileRecord == ListRecord(result, s.files[s.i + 1].fileId)
    IN  IF ~Truthy(fileRecord) THEN WithFileInfo(s, Null)
        ELSE WithFileInfo(s, RecordFileInfo(fileRecord.v))

\* `${draftOrder.name || 'order'}_files_${Date.now()}.zip`
ZipFileName(name, now) ==
    LET \* part_000:311: 'order'
        DefaultOrderName == <<"o","r","d","e","r">>
        \* part_000:311: '_files_'
        FilesInfix == <<"_","f","i","l","e","s","_">>
        \* part_000:311: '.zip'
        ZipSuffix == <<".","z","i","p">>
    IN  OrElse(name, Str(DefaultOrderName)).v \o FilesInfix \o NumToStr(now) \o ZipSuffix

\* encodeURIComponent(s) throws URIError when s holds a lone surrogate: a high
\* surrogate that no low one follows, or a low one that follows no high one.
EncodeURIComponentThrows(s) ==
    \E k \in 1..Len(s) :
        \/ s[k] \in HighSurrogates /\ (k = Len(s) \/ ~(s[k + 1] \in LowSurrogates))
        \/ s[k] \in LowSurrogates /\ (k = 1 \/ ~(s[k - 1] \in HighSurrogates))

\* zip.generateAsync has resolved: the file name, the three headers one after
\* the other and the 200 answer. The value of Content-Disposition is computed
\* after Content-Type is set, and encodeURIComponent can throw there: the outer
\* catch then answers on the response that already has the header.
AfterZipGenerated(s) ==
    LET \* Date.now(): its digits change nothing in what follows
        now == 1
        \* the message of V8's URIError
        UriMalformedMsg == <<"U","R","I"," ","m","a","l","f","o","r","m","e","d">>
        zipFileName == ZipFileName(s.draftOrder.v.name, now)
    IN  IF EncodeURIComponentThrows(zipFileName)
        THEN CatchAll([s EXCEPT !.resHeaders = @ \cup {"Content-Type"}], UriMalformedMsg)
        ELSE Respond([s EXCEPT !.resHeaders = @ \cup ArchiveHeaderNames], 200,
                     [kind |-> "zip", entries |-> s.zip.files])

(***************************************************************************)
(* Actions: one per stretch of the handler between two awaits.             *)
(***************************************************************************)
LastCall(r) == calls[r][Len(calls[r])]

Start(r) ==
    /\ pc[r] = "start"
    /\ Becomes(r, HandlerEntry(Local(r)))

OrderQueryReturns(r) ==
    LET \* part_000:210: 'Shopify文件ID'
        KeyShopifyFileId == <<"S","h","o","p","i","f","y","U+6587","U+4EF6","I","D">>
        LineItemDirectErrName ==
            [title |-> Str(<<"t">>),
             customAttributes |-> Arr(<<Attr(KeyFileName, ErrorEntryName(NameA)),
                                        Attr(KeyShopifyFileUrl, UrlB),
                                        Attr(KeyFileId, FileId2)>>)]
        LineItemBare == [title |-> Null, customAttributes |-> Null]
        LineItemNoReference ==
            [title |-> Str(<<"t">>),
             customAttributes |-> Arr(<<Attr(KeyFileName, NameA),
                                        Attr(KeyShopifyFileUrl, UrlFtp),
                                        Attr(KeyShopifyFileId, FileId1)>>)]
        LineItemEmptyValues ==
            [title |-> Str(NameB),
             customAttributes |-> Arr(<<Attr(KeyShopifyFileUrl, <<>>), Attr(KeyFileId, <<>>)>>)]
        LineItemPool ==
            {LineItemDirectA, LineItemDirectErrName, LineItemIndirect, LineItemBare,
             LineItemNoReference, LineItemEmptyValues}
        \* draftOrder(id: $id) { id name lineItems(first: 50) { edges { node {...} } } }
        \* The usual name, and with one direct file the other names: none, a
        \* surrogate pair, and a surrogate without its other half.
        Orders ==
            {[name |-> Str(<<"#","D","1">>),
              lineItems |-> [edges |-> [k \in DOMAIN items |-> [node |-> items[k]]]]] :
                items \in UNION {[1..k -> LineItemPool] : k \in 0..MaxLineItems}}
            \cup {[name |-> name, lineItems |-> [edges |-> <<[node |-> LineItemDirectA]>>]] :
                    name \in {Null, Str(<<"U+D83D","U+DE00">>), Str(<<"#","U+D83D">>),
                              Str(<<"U+DE00","1">>)}}
        \* What shopGql can come back with for the order query.
        OrderResults ==
            {Thrown(FetchFailedMsg),
             Json(GqlErrors, Null),
             Json(GqlErrors, Obj([draftOrder |-> Null])),
             Json(Arr(<<>>), Null),
             Json(Null, Obj([draftOrder |-> Null]))}
            \cup {Json(Null, Obj([draftOrder |-> Obj(o)])) : o \in Orders}
    IN
    /\ pc[r] = "await_order"
    /\ \E result \in ShopGqlAnswers(LastCall(r), OrderResults) :
        Becomes(r, AfterOrderQuery(Settle(Local(r), result), result))

\* await fetch(endpoint, ...) in shopGql settles with a response: shopGql
\* goes on to await resp.json(), whatever the status of the response.
ShopGqlFetchReturns(r) ==
    /\ pc[r] \in {"await_order", "await_handle", "await_list"}
    /\ LastCall(r).network
    /\ LastCall(r).result = Pending
    /\ Becomes(r, Settle(Local(r), Received))

\* await fetch(fileUrl) settles: the response arrives with its body unread.
FetchReturns(r) ==
    LET FetchResults ==
            {Thrown(FetchFailedMsg),
             Response(404, <<"N","o","t"," ","F","o","u","n","d">>, Pending),
             Response(200, <<"O","K">>, Pending)}
    IN
    /\ pc[r] = "await_fetch"
    /\ \E result \in FetchResults :
        Becomes(r, AfterFetch(Settle(Local(r), result), result))

\* await response.arrayBuffer() settles: the bytes of the body, or the
\* error the read of the body ended in.
BodyReturns(r) ==
    LET \* 'body broke'
        BodyFailedMsg == <<"b","o","d","y"," ","b","r","o","k","e">>
        Bytes(data) == [kind |-> "bytes", data |-> data]
        BodyResults == {Thrown(BodyFailedMsg), Bytes(<<>>), Bytes(<<7>>)}
        \* The body read is noted on the call the response answered.
        SettleBody(s, body) == [s EXCEPT !.calls[Len(s.calls)].result.body = body]
    IN
    /\ pc[r] = "await_body"
    /\ \E body \in BodyResults :
        Becomes(r, AfterBody(SettleBody(Local(r), body), body))

HandleQueryReturns(r) ==
    LET RecordPool == {RecordUrl, RecordDataUrl, RecordBase64, RecordEmpty}
        \* What shopGql can come back with for metaobjectByHandle.
        HandleResults ==
            {Thrown(FetchFailedMsg),
             Json(GqlErrors, Null),
             Json(Null, Obj([metaobjectByHandle |-> Null])),
             Json(GqlErrors, Obj([metaobjectByHandle |-> Obj(RecordBase64)]))}
            \cup {Json(Null, Obj([metaobjectByHandle |-> Obj(rec)])) : rec \in RecordPool}
    IN
    /\ pc[r] = "await_handle"
    /\ \E result \in ShopGqlAnswers(LastCall(r), HandleResults) :
        Becomes(r, AfterHandleQuery(Settle(Local(r), result), result))

ListQueryReturns(r) ==
    LET \* What shopGql can come back with for metaobjects(type, first: 100).
        ListResults ==
            {Thrown(FetchFailedMsg),
             Json(GqlErrors, Null),
             Json(Null, Obj([metaobjects |-> Obj([nodes |-> Arr(<<>>)])])),
             Json(Null, Obj([metaobjects |-> Obj([nodes |-> Arr(<<RecordBase64>>)])])),
             Json(Null, Obj([metaobjects |-> Obj([nodes |-> Arr(<<RecordBase64, RecordDataUrl,
                                                                   RecordUrl>>)])])),
             Json(Null, Obj([metaobjects |-> Obj([nodes |-> Arr(<<RecordEmpty, RecordUrl>>)])]))}
    IN
    /\ pc[r] = "await_list"
    /\ \E result \in ShopGqlAnswers(LastCall(r), ListResults) :
        Becomes(r, AfterListQuery(Settle(Local(r), result), result))

ZipGenerated(r) ==
    /\ pc[r] = "await_zip"
    /\ Becomes(r, AfterZipGenerated(Local(r)))

Next ==
    \E r \in Requests :
        \/ Start(r)
        \/ OrderQueryReturns(r)
        \/ ShopGqlFetchReturns(r)
        \/ FetchReturns(r)
        \/ BodyReturns(r)
        \/ HandleQueryReturns(r)
        \/ ListQueryReturns(r)
        \/ ZipGenerated(r)

Spec == Init /\ [][Next]_vars

(***************************************************************************)
(* Two invocations of the handler at once, their steps interleaved in any  *)
(* order, over a small pool of requests and orders.                        *)
(***************************************************************************)

InitConc ==
    LET ConcRequestPool ==
            {[query |-> [draftOrderId |-> Str(DraftOrderId)], method |-> "GET"],
             [query |-> [draftOrderId |-> Str(DraftOrderId)], method |-> "POST"]}
    IN
    /\ InitWith({1, 2})
    /\ UtilitiesIdle
    /\ \A r \in {1, 2} : req[r] \in ConcRequestPool

ConcOrderQueryReturns(r) ==
    LET ConcOrderResults ==
            {Json(Null, Obj([draftOrder |-> Null])),
             Json(Null, Obj([draftOrder |->
                Obj([name |-> Str(<<"#","D","1">>),
                     lineItems |-> [edges |-> <<[node |-> LineItemDirectA],
                                                [node |-> LineItemIndirect]>>]])]))}
    IN
    /\ pc[r] = "await_order"
    /\ \E result \in ShopGqlAnswers(LastCall(r), ConcOrderResults) :
        Becomes(r, AfterOrderQuery(Settle(Local(r), result), result))

NextConc ==
    \E r \in Requests :
        \/ Start(r)
        \/ ConcOrderQueryReturns(r)
        \/ ShopGqlFetchReturns(r)
        \/ FetchReturns(r)
        \/ BodyReturns(r)
        \/ HandleQueryReturns(r)
        \/ ListQueryReturns(r)
        \/ ZipGenerated(r)

SpecConc == InitConc /\ [][NextConc]_vars

(***************************************************************************)
(* The admin checks called on their own: the whitelist is read from the    *)
(* environment when the service is constructed, then any function is       *)
(* called with any arguments.                                              *)
(***************************************************************************)
InitAuth ==
    LET AdminEmailEnvPool ==
            {Null, Str(<<>>), Str(<<",">>),
             Str(<<"X","@","Y",".","z"," ",","," ","c","h","e","r","r","y","@","s","a","i","n","3",
                   ".","c","o","m",",">>),
             Str(<<"U+00A0","U+00C9","@","Y",".","Z","\f",",","U+03A3","U+0391","U+03A3","@","y",
                   ".","z",",","U+1C89","U+0295","U+0ECE","U+03A3","@","y",".","z">>)}
    IN
    /\ InitWith({})
    /\ unicodeVersion \in UnicodeVersions
    /\ adminEmailEnv \in AdminEmailEnvPool
    /\ adminWhitelist = parseAdminWhitelist(adminEmailEnv)
    /\ ClientIdle
    /\ invocation = NoInvocation
    /\ arguments = <<>>
    /\ returned = Null

Returns(fn, args, value) ==
    /\ invocation' = fn
    /\ arguments' = args
    /\ returned' = value
    /\ UNCHANGED <<handlerVars, authVars, client, clientPc, requests>>

CallIsAdmin ==
    \E email \in EmailPool :
        Returns("isAdmin", <<email>>, isAdmin(adminWhitelist, email))

CallIsAdminEmail ==
    \E email \in EmailPool :
        Returns("isAdminEmail", <<email>>, isAdminEmail(adminEmailEnv, email))

CallHasAdminPermission ==
    LET AdminFlagPool ==
            {Null, Str(<<>>), Str(AdminFlagValues[1]), Str(AdminFlagValues[2]),
             Str(<<"Y","e","s">>), Str(<<"T","R","U","E">>),
             Str(<<"0">>), Str(<<"o","n">>), Str(<<" ","1">>), Bool(TRUE), Bool(FALSE),
             Num(1), Num(10), Arr(<<Str(AdminFlagValues[3])>>),
             Arr(<<Str(AdminFlagValues[1]), Str(AdminFlagValues[1])>>), Arr(<<>>),
             Arr(<<Null, Str(<<"T","r","u","e">>)>>)}
    IN
    \E email \in EmailPool, admin \in AdminFlagPool :
        Returns("hasAdminPermission", <<[email |-> email, admin |-> admin]>>,
                hasAdminPermission(adminWhitelist, [email |-> email, admin |-> admin]))

CallExtractAuthFromRequest ==
    LET \* an email that is on no list
        EmailOther == <<"x","@","y",".","z">>
        AuthRequestPool ==
            LET Part == {Null}
                        \cup {Obj([email |-> e, admin |-> a]) :
                                e \in {Null, Str(DEFAULT_ADMIN_EMAILS[5]), Str(EmailOther)},
                                a \in {Null, Str(AdminFlagValues[3]), Str(<<"n","o">>)}}
            IN  {[body |-> b, query |-> q] : b \in Part, q \in Part}
    IN
    \E request \in AuthRequestPool :
        Returns("extractAuthFromRequest", <<request>>,
                extractAuthFromRequest(adminWhitelist, request))

CallVerifyDraftOrderOwnership ==
    \E requesterEmail \in EmailPool, orderEmail \in EmailPool, asAdmin \in BOOLEAN :
        Returns("verifyDraftOrderOwnership", <<requesterEmail, orderEmail, asAdmin>>,
                verifyDraftOrderOwnership(requesterEmail, orderEmail, asAdmin))

NextAuth ==
    \/ CallIsAdmin
    \/ CallIsAdminEmail
    \/ CallHasAdminPermission
    \/ CallExtractAuthFromRequest
    \/ CallVerifyDraftOrderOwnership

SpecAuth == InitAuth /\ [][NextAuth]_vars

(***************************************************************************)
(* The error handler called on its own.                                    *)
(***************************************************************************)
InitErr ==
    /\ InitWith({})
    /\ UtilitiesIdle

CallHandleError ==
    LET \* error-handler.js:85: 'forbidden'
        PatForbidden == <<"f","o","r","b","i","d","d","e","n">>
        \* error-handler.js:90: 'not_found'
        CodeNotFound == <<"n","o","t","_","f","o","u","n","d">>
        \* an error message: 'Shopify 配置缺失'
        MsgConfigMissing == <<"S","h","o","p","i","f","y"," ","U+914D","U+7F6E","U+7F3A",
            "U+5931">>
        \* an error message: 'Missing SHOPIFY_STORE_DOMAIN'
        MsgMissingEnv == <<"M","i","s","s","i","n","g"," ","S","H","O","P","I","F","Y","_","S",
            "T","O","R","E","_","D","O","M","A","I","N">>
        \* an error message: 'Missing draftOrderId'
        MsgMissingParameter == <<"M","i","s","s","i","n","g"," ","d","r","a","f","t","O","r",
            "d","e","r","I","d">>
        \* an error message: '缺少 draftOrderId'
        MsgLackingParameter == <<"U+7F3A","U+5C11"," ","d","r","a","f","t","O","r","d","e","r",
            "I","d">>
        \* an error message: 'GraphQL 错误: e'
        MsgGraphQL == <<"G","r","a","p","h","Q","L"," ","U+9519","U+8BEF",":"," ","e">>
        \* an error message: 'Shopify API 请求失败: 500'
        MsgApiFailed == <<"S","h","o","p","i","f","y"," ","A","P","I"," ","U+8BF7","U+6C42",
            "U+5931","U+8D25",":"," ","5","0","0">>
        \* an error message: '无权访问'
        MsgNoPermission == <<"U+65E0","U+6743","U+8BBF","U+95EE">>
        \* an error message: '未找到询价单'
        MsgOrderNotFound == <<"U+672A","U+627E","U+5230","U+8BE2","U+4EF7","U+5355">>
        \* an error message: '订单不存在'
        MsgNotExists == <<"U+8BA2","U+5355","U+4E0D","U+5B58","U+5728">>
        \* an error message: 'GraphQL: 未找到'
        MsgGraphQLNotFound == <<"G","r","a","p","h","Q","L",":"," ","U+672A","U+627E","U+5230">>
        \* an error message: '缺少 API key'
        MsgLackingApiKey == <<"U+7F3A","U+5C11"," ","A","P","I"," ","k","e","y">>
        \* an error message: 'timeout'
        MsgTimeout == <<"t","i","m","e","o","u","t">>
        \* The errors, options and instants handleError is called with.
        ErrorMessagePool ==
            {<<>>, MsgConfigMissing, MsgMissingEnv, MsgMissingParameter, MsgLackingParameter,
             MsgGraphQL, MsgApiFailed, PatForbidden, MsgNoPermission, MsgOrderNotFound, MsgNotExists,
             MsgGraphQLNotFound, MsgLackingApiKey, MsgTimeout}
        ErrorPool ==
            {Err(m) : m \in ErrorMessagePool}
            \cup {Null, Str(MsgTimeout), Str(MsgMissingParameter), Str(<<>>)}
            \cup {Obj([message |-> m, status |-> s, error |-> e]) :
                    e \in {Null, Str(CodeNotFound)},
                    m \in {Null, Str(MsgOrderNotFound)},
                    s \in {Null, Num(404)}}
        ErrorOptionsPool ==
            {[defaultStatus |-> d] : d \in {Undefined, Null, Num(400), Num(503)}}
    IN
    \E error \in ErrorPool, hasRes \in BOOLEAN, options \in ErrorOptionsPool,
       timestamp \in TimestampPool :
        Returns("handleError", <<error, hasRes, options>>,
                handleError(error, hasRes, options, timestamp))

CallCreateErrorResponse ==
    LET \* error-handler.js:90: 'not_found'
        CodeNotFound == <<"n","o","t","_","f","o","u","n","d">>
        \* an error message: '未找到询价单'
        MsgOrderNotFound == <<"U+672A","U+627E","U+5230","U+8BE2","U+4EF7","U+5355">>
        \* an error message: 'timeout'
        MsgTimeout == <<"t","i","m","e","o","u","t">>
        ErrorResponseOptionsPool ==
            {[message |-> m, status |-> s, error |-> e, details |-> d] :
                s \in {Undefined, Null, Num(404)},
                e \in {Undefined, Str(<<>>), Str(CodeNotFound)},
                m \in {Undefined, Null, Str(MsgOrderNotFound)},
                d \in {Undefined, Null, Str(MsgTimeout)}}
    IN
    \E options \in ErrorResponseOptionsPool, timestamp \in TimestampPool :
        Returns("createErrorResponse", <<options>>, createErrorResponse(options, timestamp))

NextErr ==
    \/ CallHandleError
    \/ CallCreateErrorResponse

SpecErr == InitErr /\ [][NextErr]_vars

(***************************************************************************)
(* ShopifyClient.query called on a client constructed from the             *)
(* environment, one call after the other.                                  *)
(***************************************************************************)
InitClient ==
    LET StoreDomain == <<"s",".","c","o","m">>
        AccessToken == <<"t","o","k">>
        ClientEnvPool ==
            {[SHOPIFY_STORE_DOMAIN |-> d, SHOP |-> s, SHOPIFY_ACCESS_TOKEN |-> a, ADMIN_TOKEN |-> k] :
                d \in {Null, Str(StoreDomain)}, s \in {Null, Str(<<"s","h","o","p">>)},
                a \in {Null, Str(<<>>), Str(AccessToken)}, k \in {Null, Str(<<"a","d","m">>)}}
    IN
    /\ InitWith({})
    /\ \E env \in ClientEnvPool :
          /\ client = ShopifyClientNew(env)
          /\ envConfigured = isConfigured(client)
    /\ clientPc = "idle"
    /\ requests = <<>>
    /\ unicodeVersion = 15
    /\ adminEmailEnv = Null
    /\ adminWhitelist = parseAdminWhitelist(adminEmailEnv)
    /\ invocation = NoInvocation
    /\ arguments = <<>>
    /\ returned = Null

\* The query has ended, or goes on to its next await.
QueryBecomes(end) ==
    /\ clientPc' = end.pc
    /\ returned' = end.value

\* query(query, variables) up to its first await.
CallQuery ==
    LET \* shopify-client.js:50: 'Shopify 配置缺失：请设置 SHOPIFY_STORE_DOMAIN/SHOP 和
        \*  SHOPIFY_ACCESS_TOKEN/ADMIN_TOKEN'
        ClientConfigMissingMsg == <<"S","h","o","p","i","f","y"," ","U+914D","U+7F6E","U+7F3A",
            "U+5931","U+FF1A","U+8BF7","U+8BBE","U+7F6E"," ","S","H","O","P","I","F","Y","_",
            "S","T","O","R","E","_","D","O","M","A","I","N","/","S","H","O","P"," ","U+548C",
            " ","S","H","O","P","I","F","Y","_","A","C","C","E","S","S","_","T","O","K","E","N",
            "/","A","D","M","I","N","_","T","O","K","E","N">>
        ClientQueryPool == {<<"q","u","e","r","y">>, <<"m","u","t","a","t","i","o","n">>}
        ClientVariablesPool == {Obj(<<>>)}
    IN
    /\ clientPc \in {"idle", "returned", "thrown"}
    /\ Len(requests) < MaxQueries
    /\ \E query \in ClientQueryPool, variables \in ClientVariablesPool :
          /\ invocation' = "query"
          /\ arguments' = <<query, variables>>
          /\ IF ~isConfigured(client)
             THEN /\ QueryBecomes(QueryThrown(ClientConfigMissingMsg))
                  /\ UNCHANGED requests
             ELSE /\ QueryBecomes([value |-> Null, pc |-> "await_fetch"])
                  /\ requests' = Append(requests,
                                        [query |-> query,
                                         accessToken |-> client.accessToken.v,
                                         endpoint |-> client.endpoint.v,
                                         result |-> Pending,
                                         variables |-> variables])
    /\ UNCHANGED <<handlerVars, authVars, client>>

\* await fetch(this.endpoint, ...) settles.
ClientFetchReturns ==
    LET \* shopify-client.js:91: 'GraphQL'
        KeepGraphQL == <<"G","r","a","p","h","Q","L">>
        UserErrors(message) == Obj([userErrors |-> Arr(<<[message |-> message]>>)])
        DataField(key, value) == [key |-> key, value |-> value]
        ClientDataPool ==
            {Null,
             Obj(<<DataField("draftOrder", Null)>>),
             Obj(<<DataField("draftOrder", Obj([userErrors |-> Null]))>>),
             Obj(<<DataField("draftOrderCreate", Obj([userErrors |-> Arr(<<>>)]))>>),
             Obj(<<DataField("draftOrderCreate", UserErrors(<<"b","a","d">>))>>),
             Obj(<<DataField("draftOrder", Null),
                   DataField("draftOrderDelete", UserErrors(KeepGraphQL)),
                   DataField("draftOrderCreate", UserErrors(<<"b","a","d">>))>>)}
        \* shopify-client.js:67: the SyntaxError of response.json(), whose message is that
        \* of the runtime's JSON.parse. For the body '<html>', Node 20 and later give
        \*  'Unexpected token '<', "<html>" is not valid JSON'
        HtmlBodyMsg == <<"U","n","e","x","p","e","c","t","e","d"," ","t","o","k","e","n"," ","'",
            "<","'",","," ","\"","<","h","t","m","l",">","\""," ","i","s"," ","n","o","t"," ","v",
            "a","l","i","d"," ","J","S","O","N">>
        \* and Node 18 gives 'Unexpected token < in JSON at position 0'
        HtmlBodyMsgNode18 == <<"U","n","e","x","p","e","c","t","e","d"," ","t","o","k","e","n",
            " ","<"," ","i","n"," ","J","S","O","N"," ","a","t"," ","p","o","s","i","t","i","o",
            "n"," ","0">>
        \* shopify-client.js:67 (for an empty body, on every runtime):
        \*  'Unexpected end of JSON input'
        EmptyBodyMsg == <<"U","n","e","x","p","e","c","t","e","d"," ","e","n","d"," ","o","f"," ",
            "J","S","O","N"," ","i","n","p","u","t">>
        \* shopify-client.js:67 (for the body 'Shopify is down'): Node 20 and later give
        \*  'Unexpected token 'S', "Shopify is down" is not valid JSON'
        ShopifyBodyMsg == <<"U","n","e","x","p","e","c","t","e","d"," ","t","o","k","e","n"," ",
            "'","S","'",","," ","\"","S","h","o","p","i","f","y"," ","i","s"," ","d","o","w","n",
            "\""," ","i","s"," ","n","o","t"," ","v","a","l","i","d"," ","J","S","O","N">>
        \* and Node 18 gives 'Unexpected token S in JSON at position 0', without the body
        ShopifyBodyMsgNode18 == <<"U","n","e","x","p","e","c","t","e","d"," ","t","o","k","e",
            "n"," ","S"," ","i","n"," ","J","S","O","N"," ","a","t"," ","p","o","s","i","t","i",
            "o","n"," ","0">>
        InvalidJson(message) == [kind |-> "invalid", message |-> message]
        ClientFetchResults ==
            {Thrown(FetchFailedMsg), Thrown(KeepGraphQL),
             Response(500, <<"E","r","r">>, Json(Null, Null)),
             Response(401, <<>>, Json(GqlErrors, Null)),
             Response(200, <<"O","K">>, InvalidJson(HtmlBodyMsg)),
             Response(200, <<"O","K">>, InvalidJson(EmptyBodyMsg)),
             Response(200, <<"O","K">>, InvalidJson(ShopifyBodyMsg)),
             Response(200, <<"O","K">>, InvalidJson(HtmlBodyMsgNode18)),
             Response(200, <<"O","K">>, InvalidJson(ShopifyBodyMsgNode18)),
             Response(200, <<"O","K">>, [kind |-> "json", json |-> Null]),
             Response(200, <<"O","K">>, Json(GqlErrors, Null)),
             Response(200, <<"O","K">>, Json(GqlErrors, Obj(<<DataField("draftOrder", Null)>>))),
             Response(200, <<"O","K">>, Json(Arr(<<>>), Obj(<<DataField("draftOrder", Null)>>)))}
            \cup {Response(200, <<"O","K">>, Json(Null, data)) : data \in ClientDataPool}
    IN
    /\ clientPc = "await_fetch"
    /\ \E result \in ClientFetchResults :
          /\ requests' = [requests EXCEPT ![Len(requests)].result = result]
          /\ QueryBecomes(QueryAfterFetch(result))
    /\ UNCHANGED <<handlerVars, authVars, client, invocation, arguments>>

\* await response.json() settles.
ClientJsonReturns ==
    /\ clientPc = "await_json"
    /\ QueryBecomes(QueryAfterJson(requests[Len(requests)].result.body))
    /\ UNCHANGED <<handlerVars, authVars, client, requests, invocation, arguments>>

NextClient ==
    \/ CallQuery
    \/ ClientFetchReturns
    \/ ClientJsonReturns

SpecClient == InitClient /\ [][NextClient]_vars

(***************************************************************************)
(* Properties.                                                             *)
(***************************************************************************)
IsGetWithId(r) == req[r].method = "GET" /\ Truthy(req[r].query.draftOrderId)

\* The loop of invocation r has run to its end.
LoopEnded(r) == zip[r].constructed /\ pc[r] \in {"await_zip", "done"}

\* The entries of the archive invocation r has sent.
SentArchive(r) == resSent[r][1].body.entries

\* The reference of a line item, read off its attributes as the
\* specification classifies it.
AttrsOf(lineItem) ==
    IF Truthy(lineItem.customAttributes) THEN lineItem.customAttributes.v ELSE <<>>
HasDirectUrl(lineItem) ==
    LET u == GetAttr(AttrsOf(lineItem), KeyShopifyFileUrl)
    IN  Truthy(u) /\ u.v # NotUploaded /\ StartsWith(u.v, HttpPrefix)
HasIndirectId(lineItem) == Truthy(GetAttr(AttrsOf(lineItem), KeyFileId))
Resolvable(lineItem) == HasDirectUrl(lineItem) \/ HasIndirectId(lineItem)
LineItemsOf(r) == draftOrder[r].v.lineItems.edges
ResolvableCount(r) ==
    Cardinality({k \in DOMAIN LineItemsOf(r) : Resolvable(LineItemsOf(r)[k].node)})

\* Invocation r has answered with exactly this response.
Answered(r, status, body) == resSent[r] = <<[status |-> status, body |-> body]>>

\* C1: when the loop ends with s >= 1 successes and f failures, the response
\* is 200 and the archive holds exactly s real-file entries and f
\* error-placeholder entries, whatever the display names are.
C1_ArchiveHoldsOneEntryPerFile ==
    \A r \in Requests :
        (pc[r] = "done" /\ zip[r].constructed /\ successCount[r] >= 1) =>
            /\ Len(resSent[r]) = 1
            /\ resSent[r][1].status = 200
            /\ resSent[r][1].body.kind = "zip"
            /\ Cardinality({n \in DOMAIN SentArchive(r) : SentArchive(r)[n].kind = "buffer"})
                   = successCount[r]
            /\ Cardinality({n \in DOMAIN SentArchive(r) : SentArchive(r)[n].kind = "text"})
                   = failCount[r]

\* C2: when every one of the k >= 1 processable entries has failed, the
\* answer is 500 with the all-downloads-failed body and no archive is
\* generated or sent; a 200 archive is only sent after a success.
C2_AllFailedIs500 ==
    \A r \in Requests :
        /\ (LoopEnded(r) /\ successCount[r] = 0) =>
              /\ pc[r] = "done"
              /\ Len(files[r]) >= 1
              /\ failCount[r] = Len(files[r])
              /\ Answered(r, 500,
                          JsonBody([error |-> AllDownloadsFailedMsg,
                                    details |-> SuccessText \o <<"0">> \o FailText
                                                \o NumToStr(Len(files[r]))]))
              /\ resHeaders[r] \cap ArchiveHeaderNames = {}
        /\ \A k \in 1..Len(resSent[r]) :
              (resSent[r][k].status = 200 \/ resSent[r][k].body.kind = "zip") =>
                  successCount[r] >= 1

C2_Witness ==
    \E r \in Requests :
        /\ pc[r] = "done" /\ zip[r].constructed
        /\ successCount[r] = 0 /\ failCount[r] = 2
        /\ resSent[r][1].status = 500

\* C3: when no line item of the order found has a processable reference
\* (k = 0, an order without line items included), the answer is 404 with the
\* no-files-found body, no archive is constructed and nothing but the order
\* query has been issued.
C3_NoFilesIs404 ==
    \A r \in Requests :
        (pc[r] \notin {"idle", "start", "await_order"} /\ Truthy(draftOrder[r])
           /\ ResolvableCount(r) = 0) =>
            /\ pc[r] = "done"
            /\ Answered(r, 404, JsonBody([error |-> NoFilesFoundMsg,
                                          message |-> NoFilesFoundDetail]))
            /\ ~zip[r].constructed
            /\ Len(calls[r]) = 1 /\ calls[r][1].query = "draftOrder"

C3_Witness ==
    \E r \in Requests :
        /\ pc[r] = "done" /\ Truthy(draftOrder[r])
        /\ Len(LineItemsOf(r)) = 2 /\ ResolvableCount(r) = 0
        /\ resSent[r][1].status = 404

\* The archive's file name can be percent-encoded: when it cannot, the
\* handler answers 500 after the loop whatever the counts are (see C21).
FileNameEncodes(r) ==
    ~EncodeURIComponentThrows(ZipFileName(draftOrder[r].v.name, 0))

\* C4: of the N line items exactly the k with a resolvable reference are
\* attempted: successCount + failCount = k when the loop ends, and the
\* Missing ones add no archive entry, no failure and no request error.
C4_ExactlyKAttempts ==
    \A r \in Requests :
        zip[r].constructed =>
            /\ Len(files[r]) = ResolvableCount(r)
            /\ successCount[r] + failCount[r] = i[r]
            /\ i[r] <= ResolvableCount(r)
            /\ {calls[r][k].entry : k \in 2..Len(calls[r])}
                   = 1..(IF LoopEnded(r) THEN i[r] ELSE i[r] + 1)
            /\ Cardinality(DOMAIN zip[r].files) <= i[r]
            /\ LoopEnded(r) => i[r] = ResolvableCount(r)
            /\ pc[r] = "done" =>
                  /\ Len(resSent[r]) = 1
                  /\ resSent[r][1].status
                        = (IF successCount[r] >= 1 /\ FileNameEncodes(r) THEN 200 ELSE 500)

C4_Witness ==
    \E r \in Requests :
        /\ pc[r] = "done" /\ zip[r].constructed
        /\ Len(LineItemsOf(r)) = 2 /\ ResolvableCount(r) = 1
        /\ successCount[r] + failCount[r] = 1
        /\ resSent[r][1].status = 200

\* The call has come back to the handler with result.
Settled(result) == result.kind \notin {"pending", "received"}

\* The message of the failure the call c ended in, for the entry file: the
\* set is empty when the call did not end the entry in a failure.
FailureOf(c, file) ==
    IF c.fn = "fetch"
    THEN IF c.result.kind = "throw" THEN {c.result.message}
         ELSE IF c.result.status \notin 200..299
         THEN {DownloadFailedText \o NumToStr(c.result.status) \o <<" ">>
                   \o c.result.statusText}
         ELSE IF c.result.body.kind = "throw" THEN {c.result.body.message}
         ELSE {}
    ELSE IF c.query = "metaobjectByHandle"
    THEN IF Truthy(HandleRecord(c.result))
            /\ ~Truthy(RecordFileInfo(HandleRecord(c.result).v))
         THEN {MetaobjectFailedMsg} ELSE {}
    ELSE IF c.query = "metaobjects"
    THEN IF ~Truthy(ListRecord(c.result, file.fileId))
         THEN {MetaobjectFailedMsg}
         ELSE IF ~Truthy(RecordFileInfo(ListRecord(c.result, file.fileId).v))
         THEN {MetaobjectFailedMsg} ELSE {}
    ELSE {}

C5_Step(r) ==
    LET n == Len(calls[r])
        c == calls'[r][n]
        file == files[r][i[r] + 1]
    IN  (zip[r].constructed
           /\ pc[r] \in {"await_fetch", "await_body", "await_handle", "await_list"}
           /\ calls[r][n].result # c.result /\ Settled(c.result)
           /\ FailureOf(c, file) # {}) =>
            /\ failCount'[r] = failCount[r] + 1
            /\ successCount'[r] = successCount[r]
            /\ i'[r] = i[r] + 1
            /\ ErrorEntryName(file.fileName) \in DOMAIN zip'[r].files
            /\ \E m \in FailureOf(c, file) :
                  zip'[r].files[ErrorEntryName(file.fileName)] = TextData(ErrorEntryText \o m)
            /\ IF i'[r] < Len(files[r])
               THEN /\ pc'[r] \in {"await_fetch", "await_handle"}
                    /\ Len(calls'[r]) = n + 1
                    /\ calls'[r][n + 1].entry = i'[r] + 1
                    /\ resSent'[r] = <<>>
               ELSE /\ pc'[r] = (IF successCount[r] = 0 THEN "done" ELSE "await_zip")
                    /\ Len(calls'[r]) = n
                    /\ successCount[r] = 0 =>
                          /\ Len(resSent'[r]) = 1
                          /\ resSent'[r][1].body.json.error = AllDownloadsFailedMsg

\* C5: a materialization failure of entry i (failed status, thrown fetch,
\* record not found) is caught inside the loop: it is counted as a failure,
\* an error placeholder carrying the error's message is added, the next
\* entry is attempted, and it never ends the request through the outer catch.
C5_PerFileIsolation == [][\A r \in Requests : C5_Step(r)]_vars

C5_Witness ==
    \E r \in Requests :
        /\ Len(files[r]) = 2 /\ i[r] = 1 /\ failCount[r] = 1
        /\ pc[r] \in {"await_fetch", "await_handle"}
        /\ calls[r][Len(calls[r])].entry = 2
        /\ ErrorEntryName(files[r][1].fileName) \in DOMAIN zip[r].files

OrderLookups(r) ==
    {k \in 1..Len(calls[r]) : calls[r][k].fn = "shopGql" /\ calls[r][k].query = "draftOrder"}

\* Invocation r has ended at the order lookup: nothing was extracted,
\* fetched, queried or built after it.
EndedAtLookup(r) ==
    /\ pc[r] = "done"
    /\ Len(calls[r]) = 1
    /\ files[r] = <<>>
    /\ ~zip[r].constructed

\* C6: the order lookup is issued exactly once per GET request with a
\* draftOrderId and never again; a thrown call or a non-empty errors list
\* ends the request with 500, an absent draftOrder with 404, and nothing is
\* extracted, fetched, queried or built in these cases.
C6_OrderLookupOnceAndFatal ==
    \A r \in Requests :
        /\ Cardinality(OrderLookups(r)) <= 1
        /\ (pc[r] \notin {"idle", "start"} /\ IsGetWithId(r)) => OrderLookups(r) = {1}
        /\ (OrderLookups(r) = {1} /\ Settled(calls[r][1].result)) =>
              LET answer == calls[r][1].result
              IN  IF answer.kind = "throw"
                  THEN /\ Answered(r, 500, JsonBody([error |-> BatchFailedMsg,
                                                     details |-> answer.message]))
                       /\ EndedAtLookup(r)
                  ELSE IF Truthy(answer.json.errors) /\ Len(answer.json.errors.v) > 0
                  THEN /\ Answered(r, 500,
                                   JsonBody([error |-> OrderQueryFailedMsg,
                                             details |-> answer.json.errors.v[1].message]))
                       /\ EndedAtLookup(r)
                  ELSE IF ~Truthy(answer.json.data)
                          \/ ~Truthy(answer.json.data.v.draftOrder)
                  THEN /\ Answered(r, 404, JsonBody([error |-> OrderNotFoundMsg]))
                       /\ EndedAtLookup(r)
                  ELSE TRUE

C6_Witness ==
    \E r \in Requests :
        /\ pc[r] = "done" /\ Len(calls[r]) = 1
        /\ calls[r][1].network /\ calls[r][1].result.kind = "throw"
        /\ resSent[r][1].status = 500

\* Invocation r has done nothing but answer.
NoProcessing(r) ==
    /\ calls[r] = <<>>
    /\ draftOrder[r] = Null
    /\ files[r] = <<>>
    /\ ~zip[r].constructed

\* C7: a request whose method is neither GET nor OPTIONS gets 405 with
\* { error: 'Method not allowed' } before any processing, whatever its
\* query parameters are.
C7_OtherMethodIs405 ==
    \A r \in Requests :
        req[r].method \notin {"GET", "OPTIONS"} =>
            /\ pc[r] \in {"idle", "start", "done"}
            /\ NoProcessing(r)
            /\ pc[r] = "done" => Answered(r, 405, JsonBody([error |-> MethodNotAllowedMsg]))

C7_Witness ==
    \E r \in Requests :
        /\ pc[r] = "done" /\ req[r].method = "POST"
        /\ req[r].query.draftOrderId = Null
        /\ resSent[r][1].status = 405

\* C8: an OPTIONS request gets the CORS headers and 204 without a body and
\* nothing else happens, with or without draftOrderId.
C8_OptionsShortCircuits ==
    \A r \in Requests :
        req[r].method = "OPTIONS" =>
            /\ pc[r] \in {"idle", "start", "done"}
            /\ NoProcessing(r)
            /\ pc[r] = "done" =>
                  /\ Answered(r, 204, NoBody)
                  /\ resHeaders[r] = CorsHeaderNames

C8_Witness ==
    \E r \in Requests :
        /\ pc[r] = "done" /\ req[r].method = "OPTIONS"
        /\ req[r].query.draftOrderId = Null
        /\ resSent[r][1].status = 204

\* C9: a GET request whose draftOrderId is missing or empty gets 400 with a
\* body whose usage field shows the example call, and no order query is
\* issued.
C9_MissingParameterIs400 ==
    \A r \in Requests :
        (req[r].method = "GET"
           /\ (req[r].query.draftOrderId = Null \/ req[r].query.draftOrderId = Str(<<>>))) =>
            /\ pc[r] \in {"idle", "start", "done"}
            /\ NoProcessing(r)
            /\ pc[r] = "done" =>
                  Answered(r, 400, JsonBody([error |-> MissingParamMsg, usage |-> UsageMsg]))

C9_Witness ==
    \E r \in Requests :
        /\ pc[r] = "done" /\ req[r].method = "GET"
        /\ req[r].query.draftOrderId = Str(<<>>)
        /\ resSent[r][1].status = 400
        /\ resSent[r][1].body.json.usage = UsageMsg

\* C10: for every DirectUrl entry whose fetch returned bytes B, the archive
\* sent holds an entry under that entry's display name with content B,
\* whatever the other entries of the order are.
C10_DirectFileRoundTrips ==
    \A r \in Requests :
        (pc[r] = "done" /\ zip[r].constructed /\ resSent[r][1].status = 200) =>
            \A k \in 1..Len(calls[r]) :
                LET c == calls[r][k]
                IN  (/\ c.fn = "fetch"
                     /\ files[r][c.entry].type = "shopify_url"
                     /\ c.result.kind = "response"
                     /\ c.result.status \in 200..299
                     /\ c.result.body.kind = "bytes") =>
                        /\ files[r][c.entry].fileName \in DOMAIN SentArchive(r)
                        /\ SentArchive(r)[files[r][c.entry].fileName]
                               = BufferData(c.result.body.data)

\* The class of a line item, by the priority order of the specification.
ReferenceClass(lineItem) ==
    IF HasDirectUrl(lineItem) THEN "DirectUrl"
    ELSE IF HasIndirectId(lineItem) THEN "IndirectReference"
    ELSE "Missing"

\* The references the line items are to be materialized from, in their order.
RECURSIVE ExpectedReferences(_)
ExpectedReferences(edges) ==
    IF edges = <<>> THEN <<>>
    ELSE LET lineItem == Head(edges).node
             here == IF ReferenceClass(lineItem) = "DirectUrl"
                     THEN <<[type |-> "shopify_url",
                             ref |-> GetAttr(AttrsOf(lineItem), KeyShopifyFileUrl).v]>>
                     ELSE IF ReferenceClass(lineItem) = "IndirectReference"
                     THEN <<[type |-> "metaobject",
                             ref |-> GetAttr(AttrsOf(lineItem), KeyFileId).v]>>
                     ELSE <<>>
         IN  here \o ExpectedReferences(Tail(edges))

\* The references of the entries of files.
ReferencesOf(fileList) ==
    [k \in DOMAIN fileList |->
        [type |-> fileList[k].type,
         ref |-> IF fileList[k].type = "shopify_url" THEN fileList[k].url
                 ELSE fileList[k].fileId]]

\* C11: every line item falls in exactly one class by first match (DirectUrl
\* when the direct URL is present, not the placeholder and begins with
\* 'http'; else IndirectReference when the identifier is present; else
\* Missing), yields at most one entry, and a direct URL that is the
\* placeholder or does not begin with 'http' is never fetched.
C11_ClassificationByPriority ==
    \A r \in Requests :
        (Truthy(draftOrder[r]) /\ pc[r] \notin {"idle", "start", "await_order"}) =>
            /\ ReferencesOf(files[r]) = ExpectedReferences(LineItemsOf(r))
            /\ Len(files[r]) <= Len(LineItemsOf(r))
            /\ \A k \in 1..Len(calls[r]) :
                  (calls[r][k].fn = "fetch"
                     /\ files[r][calls[r][k].entry].type = "shopify_url") =>
                      /\ calls[r][k].url = files[r][calls[r][k].entry].url
                      /\ calls[r][k].url # NotUploaded
                      /\ StartsWith(calls[r][k].url, HttpPrefix)

C11_Witness ==
    \E r \in Requests :
        /\ Truthy(draftOrder[r]) /\ Len(LineItemsOf(r)) = 2
        /\ HasDirectUrl(LineItemsOf(r)[1].node) /\ HasIndirectId(LineItemsOf(r)[1].node)
        /\ ~HasDirectUrl(LineItemsOf(r)[2].node) /\ HasIndirectId(LineItemsOf(r)[2].node)
        /\ Len(files[r]) = 2
        /\ files[r][1].type = "shopify_url" /\ files[r][2].type = "metaobject"
        /\ pc[r] = "done"

\* The calls of invocation r still in flight: not answered yet, or answered
\* by an ok response whose body is still being read (the body of a response
\* that is not ok is never read).
InFlight(r) ==
    {k \in 1..Len(calls[r]) :
        \/ ~Settled(calls[r][k].result)
        \/ /\ calls[r][k].result.kind = "response"
           /\ calls[r][k].result.status \in 200..299
           /\ calls[r][k].result.body = Pending}

\* Invocation r has sent an archive.
ArchiveAnswered(r) == \E k \in 1..Len(resSent[r]) : resSent[r][k].body.kind = "zip"

\* C12: the entries are materialized one after the other in the order of
\* files: at most one outbound call is in flight, the calls of an entry all
\* come after the calls of the entries before it and only once those entries
\* are counted, and the archive is generated and sent only after the last
\* entry is done.
C12_StrictlySequential ==
    \A r \in Requests :
        /\ Cardinality(InFlight(r)) <= 1
        /\ InFlight(r) \subseteq {Len(calls[r])}
        /\ (InFlight(r) # {}) = (pc[r] \in {"await_order", "await_fetch", "await_body",
                                            "await_handle", "await_list"})
        /\ \A k \in 1..(Len(calls[r]) - 1) : calls[r][k].entry <= calls[r][k + 1].entry
        /\ zip[r].constructed =>
              /\ successCount[r] + failCount[r] = i[r]
              /\ i[r] <= Len(files[r])
              /\ \A k \in 1..Len(calls[r]) : calls[r][k].entry <= i[r] + 1
              /\ \A e \in 1..i[r] : \E k \in 1..Len(calls[r]) : calls[r][k].entry = e
              /\ InFlight(r) # {} => LastCall(r).entry = i[r] + 1
        /\ (pc[r] = "await_zip" \/ ArchiveAnswered(r)) =>
              /\ i[r] = Len(files[r])
              /\ InFlight(r) = {}

C12_Witness ==
    \E r \in Requests :
        /\ ArchiveAnswered(r)
        /\ Len(files[r]) = 2
        /\ files[r][1].type = "metaobject" /\ files[r][2].type = "shopify_url"
        /\ Len(calls[r]) = 4
        /\ calls[r][2].entry = 1 /\ calls[r][2].query = "metaobjectByHandle"
        /\ calls[r][3].entry = 1 /\ calls[r][3].fn = "fetch"
        /\ calls[r][4].entry = 2 /\ calls[r][4].fn = "fetch"

\* The handler run alone on the locals s against the answers given, in the
\* order its calls are made, up to the call the answers stop at; the answer
\* of a fetch carries the body read from it, as far as it has been read.
RECURSIVE RunAlone(_, _)
RunAlone(s, answers) ==
    IF s.pc = "start" THEN RunAlone(HandlerEntry(s), answers)
    ELSE IF s.pc = "await_zip" THEN RunAlone(AfterZipGenerated(s), answers)
    ELSE IF s.pc = "await_body"
    THEN LET body == s.calls[Len(s.calls)].result.body
         IN  IF body = Pending THEN s ELSE RunAlone(AfterBody(s, body), answers)
    ELSE IF s.pc \in {"idle", "done"} \/ answers = <<>> THEN s
    ELSE LET result == Head(answers)
             s1 == Settle(s, result)
             s2 == IF result = Received THEN s1
                   ELSE IF s.pc = "await_order" THEN AfterOrderQuery(s1, result)
                   ELSE IF s.pc = "await_fetch" THEN AfterFetch(s1, result)
                   ELSE IF s.pc = "await_handle" THEN AfterHandleQuery(s1, result)
                   ELSE AfterListQuery(s1, result)
         IN  RunAlone(s2, Tail(answers))

\* The external answers invocation r has received so far, in order.
AnswersOf(r) ==
    LET settled == {k \in 1..Len(calls[r]) : calls[r][k].result # Pending}
    IN  [k \in 1..Cardinality(settled) |-> calls[r][k].result]

\* C13: with two requests in progress at once, under every interleaving of
\* their steps, what a request has answered (status, body, archive entries)
\* and its counts are what the handler run alone gives for the same request
\* and the same external answers.
C13_ConcurrentRequestsIsolated ==
    \A r \in Requests :
        pc[r] \notin {"idle", "start", "await_zip"} =>
            Local(r) = RunAlone(Fresh(req[r], "start"), AnswersOf(r))

C13_Witness ==
    /\ pc[1] = "done" /\ ArchiveAnswered(1) /\ successCount[1] = 2
    /\ pc[2] = "await_list" /\ successCount[2] = 0 /\ failCount[2] = 1
    /\ req[1] = req[2] /\ draftOrder[1] = draftOrder[2]

\* C14: for every email AuthService.isAdmin and isAdminEmail give the same
\* answer, whether ADMIN_EMAIL_WHITELIST is configured or not (when it is
\* not, both with the built-in default list of cors-config).
C14_AdminChecksAgree ==
    /\ invocation = "isAdmin" => returned = isAdminEmail(adminEmailEnv, arguments[1])
    /\ invocation = "isAdminEmail" => returned = isAdmin(adminWhitelist, arguments[1])

\* The admin flag reads as one of '1', 'true', 'yes', whatever its case: the flag
\* is read as String() gives it, so that the number 1, the boolean true and the
\* one-element array ['yes'] read as '1', 'true' and 'yes'.
FlagGranted(admin) ==
    /\ admin.t \notin {"null", "undefined"}
    /\ ToLowerCase(JsString(admin)) \in {<<"1">>, <<"t","r","u","e">>, <<"y","e","s">>}

\* The normalized email is an entry of the admin whitelist.
Whitelisted(email) == normalizeEmail(email) \in {adminWhitelist[k] : k \in 1..Len(adminWhitelist)}

\* C15: hasAdminPermission, and so the isAdmin of extractAuthFromRequest, is
\* true if and only if the admin flag is one of '1', 'true', 'yes'
\* (case-insensitive) and the normalized email is in the admin whitelist;
\* neither the flag alone nor a whitelisted email alone grants it.
C15_AdminNeedsFlagAndWhitelist ==
    /\ invocation = "hasAdminPermission" =>
          (returned = TRUE) = (FlagGranted(arguments[1].admin) /\ Whitelisted(arguments[1].email))
    /\ invocation = "extractAuthFromRequest" =>
          /\ (returned.isAdmin = TRUE) =
                (/\ FlagGranted(RequestParameter(arguments[1], "admin"))
                 /\ Whitelisted(RequestParameter(arguments[1], "email")))
          /\ returned.email = normalizeEmail(RequestParameter(arguments[1], "email"))

C15_Witness ==
    /\ invocation = "hasAdminPermission"
    /\ arguments[1].admin = Str(<<"T","R","U","E">>)
    /\ arguments[1].email.t = "string" /\ arguments[1].email.v # DEFAULT_ADMIN_EMAILS[5]
    /\ normalizeEmail(arguments[1].email) = DEFAULT_ADMIN_EMAILS[5]
    /\ Truthy(adminEmailEnv)
    /\ returned = TRUE

\* C16: verifyDraftOrderOwnership authorizes a requester who is not an admin
\* if and only if the order's email, normalized, is not empty and equals the
\* requester's normalized email; it answers forbidden when both are empty or
\* missing; an admin is always authorized.
C16_OwnershipByNormalizedEmail ==
    LET \* 'forbidden'
        ForbiddenCode == <<"f","o","r","b","i","d","d","e","n">>
    IN
    invocation = "verifyDraftOrderOwnership" =>
        LET requester == normalizeEmail(arguments[1])
            order == normalizeEmail(arguments[2])
        IN  /\ arguments[3] => returned = [authorized |-> TRUE]
            /\ ~arguments[3] =>
                  /\ returned.authorized = (order # <<>> /\ order = requester)
                  /\ ~returned.authorized => returned.error = ForbiddenCode
                  /\ (order = <<>> /\ requester = <<>>) => ~returned.authorized

C16_Witness ==
    /\ invocation = "verifyDraftOrderOwnership"
    /\ ~arguments[3]
    /\ arguments[2] = Str(DEFAULT_ADMIN_EMAILS[5])
    /\ arguments[1] # arguments[2]
    /\ returned = [authorized |-> TRUE]

\* The calls of invocation r that are the handle query and the list query.
IsHandleQuery(c) == c.fn = "shopGql" /\ c.query = "metaobjectByHandle"
IsListQuery(c) == c.fn = "shopGql" /\ c.query = "metaobjects"

\* What the handle query came back with.
HandleThrew(result) == result.kind = "throw"
HandleReturnedErrors(result) ==
    result.kind = "json" /\ Truthy(result.json.errors) /\ Len(result.json.errors.v) > 0
HandleGaveRecord(result) ==
    /\ result.kind = "json"
    /\ Truthy(result.json.data)
    /\ Truthy(result.json.data.v.metaobjectByHandle)

\* The list query is what follows call k of invocation r, for the same entry.
ListQueryFollows(r, k) ==
    /\ k < Len(calls[r])
    /\ IsListQuery(calls[r][k + 1])
    /\ calls[r][k + 1].entry = calls[r][k].entry

\* The order of the queries for an indirect entry, and their variables: the
\* handle query is the first call of the entry, the list query (first 100 of
\* the type) comes only right after it, and no failure of either ends the
\* request with the handler's 500 (the 500 of a file name that cannot be
\* encoded is not theirs).
LookupProtocol(r) ==
    /\ \A k \in 1..Len(calls[r]) :
          LET c == calls[r][k]
          IN  /\ IsHandleQuery(c) =>
                    /\ files[r][c.entry].type = "metaobject"
                    /\ c.variable = [handle |-> files[r][c.entry].fileId,
                                     type |-> FILE_METAOBJECT_TYPE]
                    /\ calls[r][k - 1].entry < c.entry
              /\ IsListQuery(c) =>
                    /\ IsHandleQuery(calls[r][k - 1])
                    /\ calls[r][k - 1].entry = c.entry
                    /\ c.variable = [type |-> FILE_METAOBJECT_TYPE, first |-> ListPageSize]
                    /\ c.variable.first = 100
    /\ \A e \in 1..Len(files[r]) :
          (files[r][e].type = "metaobject" /\ \E k \in 1..Len(calls[r]) : calls[r][k].entry = e)
              => IsHandleQuery(calls[r][CHOOSE k \in 1..Len(calls[r]) :
                                          /\ calls[r][k].entry = e
                                          /\ \A j \in 1..(k - 1) : calls[r][j].entry # e])
    /\ (zip[r].constructed /\ pc[r] = "done") =>
          /\ Len(resSent[r]) = 1
          /\ (resSent[r][1].status = 500 /\ FileNameEncodes(r))
                => resSent[r][1].body.json.error = AllDownloadsFailedMsg
          /\ i[r] = Len(files[r])

\* C17 as stated: the list query is issued if and only if the handle query
\* threw, returned errors, or returned no record.
C17_ListQueryIffThrewErrorsOrNoRecord ==
    \A r \in Requests :
        /\ LookupProtocol(r)
        /\ \A k \in 1..Len(calls[r]) :
              (IsHandleQuery(calls[r][k]) /\ Settled(calls[r][k].result)) =>
                  (ListQueryFollows(r, k) <=>
                      \/ HandleThrew(calls[r][k].result)
                      \/ HandleReturnedErrors(calls[r][k].result)
                      \/ ~HandleGaveRecord(calls[r][k].result))

\* C17, amended: getFileFromMetaobject issues the handle query first, and the
\* list query (first 100 of the type, filtered by file_id) if and only if the
\* handle query threw or gave no record; errors that come with a record do
\* not start the list query; no failure of either query leaves the function.
C17_ListQueryIffNoRecord ==
    \A r \in Requests :
        /\ LookupProtocol(r)
        /\ \A k \in 1..Len(calls[r]) :
              (IsHandleQuery(calls[r][k]) /\ Settled(calls[r][k].result)) =>
                  /\ ListQueryFollows(r, k) <=>
                        \/ HandleThrew(calls[r][k].result)
                        \/ ~HandleGaveRecord(calls[r][k].result)
                  /\ HandleGaveRecord(calls[r][k].result) =>
                        \A j \in 1..Len(calls[r]) :
                            IsListQuery(calls[r][j]) => calls[r][j].entry # calls[r][k].entry

C17_Witness ==
    \E r \in Requests :
        /\ Len(calls[r]) = 4
        /\ IsHandleQuery(calls[r][2]) /\ HandleThrew(calls[r][2].result)
        /\ IsListQuery(calls[r][3]) /\ calls[r][3].result.kind = "throw"
        /\ IsHandleQuery(calls[r][4])
        /\ HandleReturnedErrors(calls[r][4].result) /\ HandleGaveRecord(calls[r][4].result)
        /\ pc[r] = "await_zip" /\ successCount[r] = 1 /\ failCount[r] = 1

\* The secondary URL of a record is usable: it begins with http:// or https://.
HasSecondaryUrl(record) ==
    \/ StartsWith(GetField(record, FieldFileUrl), HttpScheme)
    \/ StartsWith(GetField(record, FieldFileUrl), HttpsScheme)

\* The base64 text of an inline payload: what follows the comma of a data URL.
PayloadText(data) == IF Includes(data, ",") THEN SplitSecond(data, ",") ELSE data

\* The step in which the lookup of an indirect entry ends: the handle query
\* gave a record, or the list query has answered.
C18_Step(r) ==
    LET n == Len(calls[r])
        result == calls'[r][n].result
        file == files[r][i[r] + 1]
        resolved == IF pc[r] = "await_handle" THEN HandleRecord(result)
                    ELSE ListRecord(result, file.fileId)
    IN  (/\ pc[r] \in {"await_handle", "await_list"}
         /\ ~Settled(calls[r][n].result) /\ Settled(result)
         /\ (pc[r] = "await_handle" => HandleGaveRecord(result))) =>
            IF Truthy(resolved) /\ HasSecondaryUrl(resolved.v)
            THEN /\ pc'[r] = "await_fetch"
                 /\ Len(calls'[r]) = n + 1
                 /\ calls'[r][n + 1].fn = "fetch"
                 /\ calls'[r][n + 1].url = GetField(resolved.v, FieldFileUrl)
                 /\ calls'[r][n + 1].entry = i[r] + 1
                 /\ i'[r] = i[r] /\ zip'[r] = zip[r]
                 /\ successCount'[r] = successCount[r] /\ failCount'[r] = failCount[r]
            ELSE IF Truthy(resolved) /\ GetField(resolved.v, FieldFileData) # <<>>
            THEN /\ successCount'[r] = successCount[r] + 1
                 /\ failCount'[r] = failCount[r]
                 /\ i'[r] = i[r] + 1
                 /\ zip'[r] = ZipFile(zip[r], file.fileName,
                                      BufferData(BufferFromBase64(
                                          PayloadText(GetField(resolved.v, FieldFileData)))))
                 /\ \A k \in 1..Len(calls'[r]) : calls'[r][k].entry # i[r] + 1 \/ k <= n
            ELSE /\ failCount'[r] = failCount[r] + 1
                 /\ successCount'[r] = successCount[r]
                 /\ i'[r] = i[r] + 1
                 /\ zip'[r] = ZipFile(zip[r], ErrorEntryName(file.fileName),
                                      TextData(ErrorEntryText \o MetaobjectFailedMsg))
                 /\ \A k \in 1..Len(resSent'[r]) : resSent'[r][k].status # 404
                 /\ pc'[r] = "done" => /\ i'[r] = Len(files[r]) /\ successCount[r] = 0
                                       /\ resSent'[r][1].status = 500

\* C18: a resolved indirect record is materialized from its secondary URL
\* when that begins with http:// or https:// (by the direct download, even
\* with an inline payload present), otherwise from its inline payload when
\* that is not empty, and otherwise the entry fails as record-not-found;
\* that failure, like no record found at all, is a failure of the one file:
\* one error placeholder is written, and the request is never answered 404.
C18_RecordMaterialization == [][\A r \in Requests : C18_Step(r)]_vars

C18_Witness ==
    \E r \in Requests :
        /\ Len(calls[r]) = 5
        /\ IsHandleQuery(calls[r][2]) /\ HandleGaveRecord(calls[r][2].result)
        /\ HasSecondaryUrl(HandleRecord(calls[r][2].result).v)
        /\ GetField(HandleRecord(calls[r][2].result).v, FieldFileData) # <<>>
        /\ calls[r][3].fn = "fetch" /\ calls[r][3].entry = 1
        /\ calls[r][3].result.kind = "response" /\ calls[r][3].result.status = 200
        /\ IsListQuery(calls[r][5]) /\ Settled(calls[r][5].result)
        /\ ~Truthy(ListRecord(calls[r][5].result, files[r][2].fileId))
        /\ pc[r] = "await_zip" /\ successCount[r] = 1 /\ failCount[r] = 1

\* The (status, code) pair the rules give a message, each rule with the
\* messages it names.
ClaimedPair(message, defaultStatus) ==
    LET \* '配置缺失'
        PatConfigMissing == <<"U+914D","U+7F6E","U+7F3A","U+5931">>
        \* 'Missing'
        PatMissing == <<"M","i","s","s","i","n","g">>
        \* 'GraphQL'
        PatGraphQL == <<"G","r","a","p","h","Q","L">>
        \* 'API'
        PatAPI == <<"A","P","I">>
        \* 'forbidden'
        PatForbidden == <<"f","o","r","b","i","d","d","e","n">>
        \* '无权'
        PatNoPermission == <<"U+65E0","U+6743">>
        \* '未找到'
        PatNotFound == <<"U+672A","U+627E","U+5230">>
        \* '不存在'
        PatNotExists == <<"U+4E0D","U+5B58","U+5728">>
        \* '缺少'
        PatLacking == <<"U+7F3A","U+5C11">>
        \* 'configuration_error'
        CodeConfigurationError == <<"c","o","n","f","i","g","u","r","a","t","i","o","n","_","e",
            "r","r","o","r">>
        \* 'shopify_api_error'
        CodeShopifyApiError == <<"s","h","o","p","i","f","y","_","a","p","i","_","e","r","r",
            "o","r">>
        \* 'forbidden'
        CodeForbidden == <<"f","o","r","b","i","d","d","e","n">>
        \* 'not_found'
        CodeNotFound == <<"n","o","t","_","f","o","u","n","d">>
        \* 'missing_parameter'
        CodeMissingParameter == <<"m","i","s","s","i","n","g","_","p","a","r","a","m","e","t",
            "e","r">>
    IN
    IF StringIncludes(message, PatConfigMissing)
    THEN <<Num(500), CodeConfigurationError>>
    ELSE IF StringIncludes(message, PatGraphQL) \/ StringIncludes(message, PatAPI)
    THEN <<Num(502), CodeShopifyApiError>>
    ELSE IF StringIncludes(message, PatForbidden) \/ StringIncludes(message, PatNoPermission)
    THEN <<Num(403), CodeForbidden>>
    ELSE IF StringIncludes(message, PatNotFound) \/ StringIncludes(message, PatNotExists)
    THEN <<Num(404), CodeNotFound>>
    ELSE IF StringIncludes(message, PatLacking) \/ StringIncludes(message, PatMissing)
    THEN <<Num(400), CodeMissingParameter>>
    ELSE <<defaultStatus, CodeUnknownError>>

\* C19: handleError gives every Error one (status, code) pair, determined by
\* its message: configuration errors 500 configuration_error, GraphQL/API
\* errors 502 shopify_api_error, forbidden 403 forbidden, not-found 404
\* not_found, messages of a missing parameter (containing the Chinese word
\* for 'lacking' or 'Missing') 400 missing_parameter, and any other Error the
\* default status and unknown_error.
C19_ErrorsMapByMessage ==
    (invocation = "handleError" /\ arguments[1].t = "error") =>
        <<returned.status, returned.body.error>> =
            ClaimedPair(arguments[1].v,
                        IF arguments[3].defaultStatus = Undefined THEN Num(500)
                        ELSE arguments[3].defaultStatus)

\* The answer of the network to the query under way or just ended.
LastAnswer == requests[Len(requests)].result

\* A response carries top-level GraphQL errors, or userErrors under a field
\* of its data.
HasGraphQLErrors(json) == Truthy(json.errors) /\ Len(json.errors.v) > 0
HasUserErrors(json) ==
    /\ Truthy(json.data)
    /\ \E k \in 1..Len(json.data.v) :
          /\ Truthy(json.data.v[k].value)
          /\ Truthy(json.data.v[k].value.v.userErrors)
          /\ Len(json.data.v[k].value.v.userErrors.v) > 0

\* C20: ShopifyClient.query either throws an Error or returns a response
\* with no top-level GraphQL errors and no non-empty userErrors under any
\* field of its data; without the configuration it throws and no request
\* goes out; a non-OK HTTP status, a GraphQL error list and a userError each
\* make it throw instead of returning the response.
C20_QueryThrowsOrReturnsClean ==
    LET \* 'Shopify 配置缺失：请设置 SHOPIFY_STORE_DOMAIN/SHOP 和 SHOPIFY_ACCESS_TOKEN/ADMIN_TOKEN'
        ClientConfigMissingMsg == <<"S","h","o","p","i","f","y"," ","U+914D","U+7F6E","U+7F3A",
            "U+5931","U+FF1A","U+8BF7","U+8BBE","U+7F6E"," ","S","H","O","P","I","F","Y","_",
            "S","T","O","R","E","_","D","O","M","A","I","N","/","S","H","O","P"," ","U+548C",
            " ","S","H","O","P","I","F","Y","_","A","C","C","E","S","S","_","T","O","K","E","N",
            "/","A","D","M","I","N","_","T","O","K","E","N">>
    IN
    /\ ~isConfigured(client) =>
          /\ requests = <<>>
          /\ clientPc \in {"idle", "thrown"}
          /\ clientPc = "thrown" => returned = Err(ClientConfigMissingMsg)
    /\ clientPc = "thrown" => returned.t = "error"
    /\ clientPc = "returned" =>
          /\ LastAnswer.kind = "response" /\ LastAnswer.status \in 200..299
          /\ LastAnswer.body.kind = "json" /\ returned = LastAnswer.body.json
          /\ ~HasGraphQLErrors(returned)
          /\ ~HasUserErrors(returned)
    /\ (clientPc \in {"returned", "thrown"} /\ requests # <<>>
          /\ LastAnswer.kind = "response") =>
          /\ LastAnswer.status \notin 200..299 => clientPc = "thrown"
          /\ (LastAnswer.body.kind = "json" /\ LastAnswer.body.json # Null) =>
                /\ HasGraphQLErrors(LastAnswer.body.json) => clientPc = "thrown"
                /\ HasUserErrors(LastAnswer.body.json) => clientPc = "thrown"

C20_Witness ==
    LET \* '操作失败: '
        OperationFailedText == <<"U+64CD","U+4F5C","U+5931","U+8D25",":"," ">>
        \* 'Shopify API 调用失败: '
        ApiCallFailedText == <<"S","h","o","p","i","f","y"," ","A","P","I"," ","U+8C03",
            "U+7528","U+5931","U+8D25",":"," ">>
    IN
    /\ clientPc = "thrown"
    /\ Len(requests) = 2
    /\ requests[1].result.kind = "response" /\ requests[1].result.status = 200
    /\ requests[1].result.body.kind = "json" /\ requests[1].result.body.json # Null
    /\ ~HasGraphQLErrors(requests[1].result.body.json)
    /\ ~HasUserErrors(requests[1].result.body.json)
    /\ LastAnswer.kind = "response" /\ LastAnswer.status = 200
    /\ LastAnswer.body.kind = "json" /\ LastAnswer.body.json # Null
    /\ ~HasGraphQLErrors(LastAnswer.body.json)
    /\ HasUserErrors(LastAnswer.body.json)
    /\ returned = Err(ApiCallFailedText \o OperationFailedText \o <<"b","a","d">>)
\* The statuses the handler answers with.
HandlerStatuses == {200, 204, 400, 404, 405, 500}

\* C21: every invocation of the handler sends exactly one response, on every
\* path: none while it runs and one once it has returned, with a status in
\* {200, 204, 400, 404, 405, 500}; no path sends two responses, and none sets
\* an archive header and then answers with a JSON error.
C21_ExactlyOneResponse ==
    \A r \in Requests :
        pc[r] # "idle" =>
            /\ Len(resSent[r]) = (IF pc[r] = "done" THEN 1 ELSE 0)
            /\ \A k \in 1..Len(resSent[r]) :
                  /\ resSent[r][k].status \in HandlerStatuses
                  /\ resSent[r][k].body.kind = "json"
                        => resHeaders[r] \cap ArchiveHeaderNames = {}
=============================================================================
